---- MODULE Spec2Model ----
(***************************************************************************)
(* Model of ProjectD: the documentation entity graph built by parse(), the *)
(* per-configuration post_process() pass over a deep copy of that graph,   *)
(* the cross-reference resolver and the inheritance resolver.              *)
(*                                                                         *)
(* A Python str is a sequence of one-character strings; a dict is a        *)
(* function whose domain is the key set; an object is an entry of `heap`,  *)
(* addressed by a reference <<generation, index>>.  Generation 0 holds the *)
(* objects made by parse(), generation r the objects made by the deepcopy  *)
(* of the r-th post_process() call.                                        *)
(***************************************************************************)
EXTENDS Integers, Sequences, FiniteSets, TLC

(***************************************************************************)
(* Bounds of the model.                                                    *)
(***************************************************************************)
MaxFiles == 2
MaxRuns == 2

(***************************************************************************)
(* Python str operations, over sequences of characters.                    *)
(***************************************************************************)
Whitespace == {" ", "\t", "\n"}

\* str.startswith / str.endswith
startswith(s, p) == Len(s) >= Len(p) /\ SubSeq(s, 1, Len(p)) = p
endswith(s, p) == Len(s) >= Len(p) /\ SubSeq(s, Len(s) - Len(p) + 1, Len(s)) = p

\* str.lstrip(chars) / str.rstrip(chars)
RECURSIVE lstrip(_, _)
lstrip(s, chars) ==
    IF s # <<>> /\ Head(s) \in chars THEN lstrip(Tail(s), chars) ELSE s

RECURSIVE rstrip(_, _)
rstrip(s, chars) ==
    IF s # <<>> /\ s[Len(s)] \in chars THEN rstrip(SubSeq(s, 1, Len(s) - 1), chars) ELSE s

\* str.split() with no argument: the maximal runs of non-whitespace
RECURSIVE split_from(_, _)
split_from(s, cur) ==
    IF s = <<>> THEN (IF cur = <<>> THEN <<>> ELSE <<cur>>)
    ELSE IF Head(s) \in Whitespace
         THEN (IF cur = <<>> THEN <<>> ELSE <<cur>>) \o split_from(Tail(s), <<>>)
         ELSE split_from(Tail(s), Append(cur, Head(s)))

split(s) == split_from(s, <<>>)

\* " ".join(words)
RECURSIVE join(_)
join(words) ==
    IF words = <<>> THEN <<>>
    ELSE IF Len(words) = 1 THEN words[1]
    ELSE words[1] \o <<" ">> \o join(Tail(words))

\* str.replace(old, new): every non-overlapping occurrence, left to right;
\* an empty `old` matches before every character and at the end.
RECURSIVE replace_nonempty(_, _, _)
replace_nonempty(s, old, new) ==
    IF Len(s) < Len(old) THEN s
    ELSE IF SubSeq(s, 1, Len(old)) = old
         THEN new \o replace_nonempty(SubSeq(s, Len(old) + 1, Len(s)), old, new)
         ELSE <<Head(s)>> \o replace_nonempty(Tail(s), old, new)

RECURSIVE replace_empty(_, _)
replace_empty(s, new) ==
    IF s = <<>> THEN new ELSE new \o <<Head(s)>> \o replace_empty(Tail(s), new)

replace(s, old, new) ==
    IF old = <<>> THEN replace_empty(s, new) ELSE replace_nonempty(s, old, new)

\* re.split(r"::|#", word)
RECURSIVE re_split_from(_, _)
re_split_from(s, cur) ==
    IF s = <<>> THEN <<cur>>
    ELSE IF startswith(s, <<":", ":">>)
         THEN <<cur>> \o re_split_from(SubSeq(s, 3, Len(s)), <<>>)
         ELSE IF Head(s) = "#"
              THEN <<cur>> \o re_split_from(Tail(s), <<>>)
              ELSE re_split_from(Tail(s), Append(cur, Head(s)))

re_split(word) == re_split_from(word, <<>>)


\* str.split(" ", 1): cut at the first space, if there is one
RECURSIVE first_space(_, _)
first_space(s, i) ==
    IF i > Len(s) THEN 0 ELSE IF s[i] = " " THEN i ELSE first_space(s, i + 1)

split1(s) ==
    LET i == first_space(s, 1) IN
    IF i = 0 THEN <<s>> ELSE <<SubSeq(s, 1, i - 1), SubSeq(s, i + 1, Len(s))>>

\* str.strip() with no argument, and str.strip(chars)
strip(s) == rstrip(lstrip(s, Whitespace), Whitespace)

strip_chars(s, chars) == rstrip(lstrip(s, chars), chars)

\* str.find(sub), counted from 0; -1 when sub does not occur
RECURSIVE find_from(_, _, _)
find_from(s, sub, i) ==
    IF i + Len(sub) > Len(s) THEN -1
    ELSE IF SubSeq(s, i + 1, i + Len(sub)) = sub THEN i
    ELSE find_from(s, sub, i + 1)

find(s, sub) == find_from(s, sub, 0)

\* sub in s
contains(s, sub) == find(s, sub) >= 0

\* s[n:]; a negative n counts from the end
slice_from(s, n) ==
    IF n >= 0 THEN SubSeq(s, n + 1, Len(s))
    ELSE IF Len(s) + n <= 0 THEN s
    ELSE SubSeq(s, Len(s) + n + 1, Len(s))

max(a, b) == IF a >= b THEN a ELSE b

\* str.startswith(tuple)
startswith_any(s, prefixes) == \E p \in prefixes : startswith(s, p)

\* re.split(" |\n", line, maxsplit=1): cut at the first space or newline
RECURSIVE first_space_or_newline(_, _)
first_space_or_newline(s, i) ==
    IF i > Len(s) THEN 0
    ELSE IF s[i] \in {" ", "\n"} THEN i
    ELSE first_space_or_newline(s, i + 1)

(***************************************************************************)
(* Command keywords, as the Grouper leaves them in CommandDoc.name.        *)
(***************************************************************************)
kw_anonymous == <<>>
kw_brief == <<"b", "r", "i", "e", "f">>
kw_deprecated == <<"d", "e", "p", "r", "e", "c", "a", "t", "e", "d">>
kw_todo == <<"t", "o", "d", "o">>
kw_return == <<"r", "e", "t", "u", "r", "n">>
kw_returns == <<"r", "e", "t", "u", "r", "n", "s">>
kw_param == <<"p", "a", "r", "a", "m">>
kw_class == <<"c", "l", "a", "s", "s">>
kw_enum == <<"e", "n", "u", "m">>
kw_namespace == <<"n", "a", "m", "e", "s", "p", "a", "c", "e">>

(***************************************************************************)
(* dataclasses.py: DocElement, DocBlock, CommandDoc.  A field of type      *)
(* `DocBlock | None` is a record whose `some` is FALSE for None.           *)
(***************************************************************************)
DocElement(text, element_type) == [text |-> text, element_type |-> element_type]

DocBlock(elements) == [some |-> TRUE, elements |-> elements]

None == [some |-> FALSE, elements |-> <<>>]

CommandDoc(name, elements) == [name |-> name, doc |-> DocBlock(elements)]

(***************************************************************************)
(* process_lines.py: the Segmenter (_preprocess_lines), which cuts the     *)
(* lines of a comment into logical lines, and the Grouper (the loop of     *)
(* process_lines), which groups the logical lines into CommandDocs.        *)
(***************************************************************************)
str_verbatim == <<"v", "e", "r", "b", "a", "t", "i", "m">>
str_code == <<"c", "o", "d", "e">>
str_blank == <<"b", "l", "a", "n", "k">>
str_li == <<"l", "i">>
str_end == <<"e", "n", "d">>

\* the characters that start a command
Escapes == {"\\", "@"}

with_escape(word) == {<<e>> \o word : e \in Escapes}

\* the characters that start a list item
ListMarkers == {"-", "+", "*"}

\* what closes a paragraph or a list item, beside an empty line
BlockEnders == {<<c>> : c \in Escapes \cup ListMarkers}

remove_comment_chars_from_line(raw_line) ==
    LET undecorate(line) ==
            IF startswith(line, <<"/", "/", "!", "<">>) \/ startswith(line, <<"/", "/", "/", "<">>)
            THEN slice_from(line, 4)
            ELSE IF startswith(line, <<"/", "/", "/">>) THEN slice_from(line, 3)
            ELSE replace(replace(replace(replace(line, <<"/", "*", "*">>, <<>>),
                                         <<"/", "*", "!">>, <<>>),
                                 <<"/", "*">>, <<>>),
                         <<"*", "/">>, <<>>)
    IN  strip_chars(undecorate(strip(raw_line)), {"*"})

\* the local variables of _preprocess_lines before the first line
PreprocessStart == [result |-> <<>>, cur_line |-> <<>>, block_type |-> "None", chars |-> 0]

\* a.join("\n", b) / a.join(" ", b) onto a line being accumulated
joined_with(cur_line, sep, line) == IF cur_line # <<>> THEN cur_line \o sep \o line ELSE line

\* result.append(cur_line); cur_line = ""; block_type = None
emit_cur_line(pp) ==
    [pp EXCEPT !.block_type = "None", !.result = Append(@, pp.cur_line), !.cur_line = <<>>]

\* the body of the loop for a line read inside a verbatim region
preprocess_verbatim(pp, line) ==
    LET close(line_without_end_verbatim) ==
            emit_cur_line([pp EXCEPT !.cur_line =
                IF line_without_end_verbatim # <<>>
                THEN pp.cur_line \o <<"\n">> \o line_without_end_verbatim
                ELSE pp.cur_line])
    IN  IF \E tag \in with_escape(str_end \o str_verbatim) : contains(line, tag)
        THEN close(slice_from(replace(replace(line, <<"\\">> \o str_end \o str_verbatim, <<>>),
                                      <<"@">> \o str_end \o str_verbatim, <<>>),
                              pp.chars))
        ELSE [pp EXCEPT !.cur_line = joined_with(@, <<"\n">>, slice_from(line, pp.chars))]

preprocess_code_keeps_terminator(pp, line) ==
    IF \E tag \in with_escape(str_end \o str_code) : contains(line, tag)
    THEN emit_cur_line([pp EXCEPT !.cur_line =
             joined_with(@, <<"\n">>,
                         slice_from(replace(replace(line, <<"\\">> \o str_end \o str_code, <<>>),
                                            <<"@">> \o str_end \o str_code, <<>>),
                                    pp.chars))])
    ELSE [pp EXCEPT !.cur_line = joined_with(@, <<"\n">>, slice_from(line, pp.chars))]

\* the body of the loop for a line read inside a code region
preprocess_code(pp, line) ==
    IF \E tag \in with_escape(str_end \o str_code) : contains(line, tag)
    THEN emit_cur_line(pp)
    ELSE [pp EXCEPT !.cur_line = joined_with(@, <<"\n">>, slice_from(line, pp.chars))]

list_item_trimmed(stripped_line) ==
    <<"@">> \o str_li \o <<" ">> \o lstrip(stripped_line, Whitespace)

\* f"@li {stripped_line}"
list_item(stripped_line) == <<"@">> \o str_li \o <<" ">> \o stripped_line

emit_blank_always(pp) == [pp EXCEPT !.result = Append(@, <<"@">> \o str_blank)]

\* `if result: result.append("@blank")`
emit_blank(pp) ==
    IF pp.result # <<>> THEN [pp EXCEPT !.result = Append(@, <<"@">> \o str_blank)] ELSE pp

\* the body of the loop from `if not fully_stripped_line` on: a line that
\* continues no paragraph and no list item
preprocess_open(pp, original_line, stripped_line, fully_stripped_line) ==
    IF fully_stripped_line = <<>>
    THEN emit_blank(pp)
    ELSE IF startswith_any(fully_stripped_line, with_escape(str_verbatim))
    THEN [pp EXCEPT !.block_type = "verbatim",
                    !.chars = max(find(original_line, <<"@">> \o str_verbatim),
                                  find(original_line, <<"\\">> \o str_verbatim)),
                    !.cur_line = fully_stripped_line]
    ELSE IF startswith_any(fully_stripped_line, with_escape(str_code))
    THEN [pp EXCEPT !.block_type = "code",
                    !.chars = max(find(original_line, <<"@">> \o str_code),
                                  find(original_line, <<"\\">> \o str_code)),
                    !.cur_line = fully_stripped_line]
    ELSE IF startswith_any(fully_stripped_line, {<<c>> : c \in ListMarkers})
    THEN [pp EXCEPT !.block_type = "list", !.cur_line = list_item(stripped_line)]
    ELSE [pp EXCEPT !.block_type = "other", !.cur_line = fully_stripped_line]

preprocess_text_joined_by_newline(pp, original_line, stripped_line, fully_stripped_line) ==
    IF pp.block_type \in {"other", "list"}
    THEN IF fully_stripped_line = <<>> \/ startswith_any(fully_stripped_line, BlockEnders)
         THEN preprocess_open(emit_cur_line(pp), original_line, stripped_line,
                              fully_stripped_line)
         ELSE [pp EXCEPT !.cur_line = joined_with(@, <<"\n">>, fully_stripped_line)]
    ELSE preprocess_open(pp, original_line, stripped_line, fully_stripped_line)

\* the body of the loop for a line read outside a verbatim or code region
preprocess_text(pp, original_line, stripped_line, fully_stripped_line) ==
    IF pp.block_type \in {"other", "list"}
    THEN IF fully_stripped_line = <<>> \/ startswith_any(fully_stripped_line, BlockEnders)
         THEN preprocess_open(emit_cur_line(pp), original_line, stripped_line,
                              fully_stripped_line)
         ELSE [pp EXCEPT !.cur_line = joined_with(@, <<" ">>, fully_stripped_line)]
    ELSE preprocess_open(pp, original_line, stripped_line, fully_stripped_line)

\* one iteration of the loop of _preprocess_lines
preprocess_line(pp, line) ==
    LET text(stripped_line) ==
            preprocess_text(pp, line, stripped_line, lstrip(stripped_line, Whitespace))
    IN  IF pp.block_type = "verbatim" THEN preprocess_verbatim(pp, line)
        ELSE IF pp.block_type = "code" THEN preprocess_code(pp, line)
        ELSE text(remove_comment_chars_from_line(line))

RECURSIVE preprocess_from(_, _)
preprocess_from(pp, lines) ==
    IF lines = <<>> THEN pp ELSE preprocess_from(preprocess_line(pp, Head(lines)), Tail(lines))

\* _preprocess_lines
preprocess_lines(lines) ==
    LET return(pp) == IF pp.cur_line # <<>> THEN Append(pp.result, pp.cur_line) ELSE pp.result
    IN  return(preprocess_from(PreprocessStart, lines))

\* _get_keyword_and_rest_of_line
get_keyword_and_rest_of_line(line) ==
    LET cut(i) ==
            IF i = 0 THEN [keyword |-> Tail(line), rest_of_line |-> <<>>]
            ELSE [keyword |-> SubSeq(line, 2, i - 1), rest_of_line |-> SubSeq(line, i + 1, Len(line))]
    IN  IF line # <<>> /\ Head(line) \in Escapes THEN cut(first_space_or_newline(line, 1))
        ELSE [keyword |-> <<>>, rest_of_line |-> line]

\* The local variables of the loop of process_lines.  `objs` holds the
\* CommandDoc objects made so far, as [name, elements]: objs[1] is
\* anonymous_command; `commands` and `cur_command` refer to them by index.
GrouperStart ==
    [objs |-> << [name |-> <<>>, elements |-> <<>>] >>, commands |-> <<>>, cur_command |-> 1]

\* cur_command not in commands, then commands.append(cur_command).  `in`
\* compares with ==, and CommandDoc is a dataclass: two commands are equal
\* when their names and their elements are.
append_cur_command(g) ==
    IF \E k \in 1..Len(g.commands) :
           g.commands[k] = g.cur_command \/ g.objs[g.commands[k]] = g.objs[g.cur_command]
    THEN g
    ELSE [g EXCEPT !.commands = Append(@, g.cur_command)]

\* cur_command.doc.elements.append(DocElement(text, element_type))
append_element(g, text, element_type) ==
    [g EXCEPT !.objs[g.cur_command].elements = Append(@, DocElement(text, element_type))]

\* match keyword, were an untagged line appended to the current command
match_keyword_keep_current(g, keyword, rest_of_line) ==
    IF keyword = str_blank THEN [g EXCEPT !.cur_command = 1]
    ELSE IF keyword \in {<<>>, str_li} THEN append_element(g, rest_of_line, "text")
    ELSE IF keyword = str_verbatim THEN append_element(g, rest_of_line, "verbatim")
    ELSE IF keyword = str_code THEN append_element(g, rest_of_line, "code")
    ELSE [g EXCEPT !.objs = Append(@, [name |-> keyword,
                                       elements |-> IF rest_of_line # <<>>
                                                    THEN <<DocElement(rest_of_line, "text")>>
                                                    ELSE <<>>]),
                   !.cur_command = Len(g.objs) + 1]

\* match keyword
match_keyword(g, keyword, rest_of_line) ==
    IF keyword = str_blank THEN [g EXCEPT !.cur_command = 1]
    ELSE IF keyword = <<>>
    THEN append_element([g EXCEPT !.cur_command = 1], rest_of_line, "text")
    ELSE IF keyword = str_verbatim THEN append_element(g, rest_of_line, "verbatim")
    ELSE IF keyword = str_code THEN append_element(g, rest_of_line, "code")
    ELSE IF keyword = str_li THEN append_element(g, rest_of_line, "text")
    ELSE [g EXCEPT !.objs = Append(@, [name |-> keyword,
                                       elements |-> IF rest_of_line # <<>>
                                                    THEN <<DocElement(rest_of_line, "text")>>
                                                    ELSE <<>>]),
                   !.cur_command = Len(g.objs) + 1]

\* one iteration of the loop of process_lines
group_line(g, line) ==
    LET match(kr) == match_keyword(append_cur_command(g), kr.keyword, kr.rest_of_line)
    IN  match(get_keyword_and_rest_of_line(line))

RECURSIVE group_from(_, _)
group_from(g, lines) ==
    IF lines = <<>> THEN g ELSE group_from(group_line(g, Head(lines)), Tail(lines))

\* [command for command in commands if command.name or command.doc.elements]
RECURSIVE kept_commands(_, _)
kept_commands(objs, commands) ==
    IF commands = <<>> THEN <<>>
    ELSE (IF objs[Head(commands)].name # <<>> \/ objs[Head(commands)].elements # <<>>
          THEN <<CommandDoc(objs[Head(commands)].name, objs[Head(commands)].elements)>>
          ELSE <<>>)
         \o kept_commands(objs, Tail(commands))

\* the end of process_lines, after the loop
group_return(g) ==
    LET return(g1) == kept_commands(g1.objs, g1.commands)
    IN  return(append_cur_command(g))

process_lines(lines) == group_return(group_from(GrouperStart, preprocess_lines(lines)))

(***************************************************************************)
(* Objects and references.                                                 *)
(***************************************************************************)
Null == <<0, 0>>

EmptyDict == <<>>

\* d[k] = v
dict_set(d, k, v) == (k :> v) @@ d

\* the values of a dict, as a set of references
dict_values(d) == {d[k] : k \in DOMAIN d}

\* One record shape for every EntityDoc subclass; a field that a subclass
\* does not have keeps the value given here.  The declaration facts that are
\* copied through and never read again (the boolean method flags, type
\* strings, class_key, full_name, enumerator value) are left out.
EntityDoc ==
    [kind |-> "entity", name |-> <<>>,
     desc |-> None, brief |-> None, deprecated |-> None, todo |-> None,
     params |-> <<>>, returns |-> None, class_doc |-> Null,
     values |-> <<>>,
     public_methods |-> <<>>, public_attributes |-> <<>>, public_enums |-> EmptyDict,
     base_classes |-> <<>>, namespace |-> Null,
     classes |-> EmptyDict, enums |-> EmptyDict, namespaces |-> EmptyDict]

\* The state of a running parse(): the heap (generation 0), the next free
\* index, the global tables, the tables of the file being read, and whether
\* an exception has left parse().
EmptyStore ==
    [heap |-> <<>>, next |-> 1,
     namespaces |-> EmptyDict, classes |-> EmptyDict, enums |-> EmptyDict,
     files |-> EmptyDict,
     file_namespaces |-> EmptyDict, file_classes |-> EmptyDict, file_enums |-> EmptyDict,
     raised |-> FALSE]

alloc(st, ent) ==
    [st EXCEPT !.heap = (<<0, st.next>> :> ent) @@ st.heap, !.next = st.next + 1]

last_ref(st) == <<0, st.next - 1>>

(***************************************************************************)
(* EntityDoc._from_doxygen_string: the common fields of an entity, from    *)
(* the commands that process_lines made of the comment.  A declaration's   *)
(* `doxygen` is [has, commands]: `has` is FALSE for a missing or empty     *)
(* comment, `commands` is process_lines(doxygen.splitlines()).             *)
(***************************************************************************)
NoDoxygen == [has |-> FALSE, commands |-> <<>>]

Doxygen(commands) == [has |-> TRUE, commands |-> commands]

\* the block of the last command with one of the names, were it the one taken
RECURSIVE last_doc(_, _)
last_doc(commands, names) ==
    IF commands = <<>> THEN None
    ELSE IF commands[Len(commands)].name \in names THEN commands[Len(commands)].doc
    ELSE last_doc(SubSeq(commands, 1, Len(commands) - 1), names)

\* next((cmd.doc for cmd in commands if cmd.name in names), None)
RECURSIVE first_doc(_, _)
first_doc(commands, names) ==
    IF commands = <<>> THEN None
    ELSE IF Head(commands).name \in names THEN Head(commands).doc
    ELSE first_doc(Tail(commands), names)

from_doxygen_string(doxygen) ==
    LET commands == IF doxygen.has THEN doxygen.commands ELSE <<>> IN
    [EntityDoc EXCEPT
        !.brief = first_doc(commands, {kw_brief}),
        !.desc = first_doc(commands, {kw_anonymous}),
        !.deprecated = first_doc(commands, {kw_deprecated}),
        !.todo = first_doc(commands, {kw_todo})]

commands_of(doxygen) == IF doxygen.has THEN doxygen.commands ELSE <<>>

(***************************************************************************)
(* Entity extractors.  An extractor returns [status, ...]: status is "ok"  *)
(* for an entity, "none" for Python's None and "raise" for an exception    *)
(* that leaves the extractor (which parse() does not catch).               *)
(***************************************************************************)
\* param_pattern = r"^param(?:\[(in|out|inout)\])?$" and the Direction it gives
ParamDirection ==
    (kw_param :> "in")
    @@ ((kw_param \o <<"[", "i", "n", "]">>) :> "in")
    @@ ((kw_param \o <<"[", "o", "u", "t", "]">>) :> "out")
    @@ ((kw_param \o <<"[", "i", "n", "o", "u", "t", "]">>) :> "in,out")

\* next(param for param in params if param.name == param_name)
RECURSIVE first_param(_, _)
first_param(params, param_name) ==
    IF Head(params).name = param_name THEN Head(params) ELSE first_param(Tail(params), param_name)

\* MethodDoc.parse_param, were the description the remainder of the first
\* line alone
parse_param_first_line(param_doc, params) ==
    IF param_doc.name \notin DOMAIN ParamDirection THEN [status |-> "none"]
    ELSE IF param_doc.doc.elements = <<>> THEN [status |-> "raise"]
    ELSE LET associate(name_and_desc) ==
                 IF Len(name_and_desc) < 2 THEN [status |-> "none"]
                 ELSE IF \E i \in 1..Len(params) : params[i].name = name_and_desc[1]
                 THEN [status |-> "ok",
                       param |-> [name |-> name_and_desc[1],
                                  desc |-> DocBlock(<<DocElement(name_and_desc[2], "text")>>),
                                  direction |-> ParamDirection[param_doc.name],
                                  param_type |-> first_param(params, name_and_desc[1]).type]]
                 ELSE [status |-> "none"]
         IN  associate(split1(param_doc.doc.elements[1].text))

\* MethodDoc.parse_param.  `not param_doc.doc` is never true: DocBlock
\* defines neither __bool__ nor __len__, so every DocBlock is truthy.
parse_param(param_doc, params) ==
    IF ~param_doc.doc.some THEN [status |-> "none"]
    ELSE IF param_doc.name \notin DOMAIN ParamDirection THEN [status |-> "none"]
    ELSE IF param_doc.doc.elements = <<>> THEN [status |-> "raise"]
    ELSE LET associate(name_and_desc) ==
                 IF Len(name_and_desc) < 2 THEN [status |-> "none"]
                 ELSE IF \E i \in 1..Len(params) : params[i].name = name_and_desc[1]
                 THEN [status |-> "ok",
                       param |-> [name |-> name_and_desc[1],
                                  desc |-> DocBlock(<<DocElement(name_and_desc[2], "text")>>
                                                    \o Tail(param_doc.doc.elements)),
                                  direction |-> ParamDirection[param_doc.name],
                                  param_type |-> first_param(params, name_and_desc[1]).type]]
                 ELSE [status |-> "none"]
         IN  associate(split1(param_doc.doc.elements[1].text))

\* the loop of MethodDoc.parse over the commands whose name starts with "param"
RECURSIVE parse_params(_, _, _)
parse_params(commands, params, acc) ==
    IF commands = <<>> THEN [status |-> "ok", params |-> acc]
    ELSE IF ~startswith(Head(commands).name, kw_param)
         THEN parse_params(Tail(commands), params, acc)
         ELSE LET collect(p) ==
                      IF p.status = "raise" THEN [status |-> "raise", params |-> acc]
                      ELSE parse_params(Tail(commands), params,
                                        IF p.status = "ok" THEN Append(acc, p.param) ELSE acc)
              IN  collect(parse_param(Head(commands), params))

\* MethodDoc.parse: method is [name, doxygen, access, parameters], and a
\* parameter is [name, type], the type as type.format() writes it
MethodDoc_parse(method) ==
    LET construct(commands, ps) ==
            [status |-> ps.status,
             entity |-> [from_doxygen_string(method.doxygen) EXCEPT
                            !.kind = "method",
                            !.name = method.name,
                            !.returns = first_doc(commands, {kw_return, kw_returns}),
                            !.params = ps.params]]
    IN  construct(commands_of(method.doxygen),
                  parse_params(commands_of(method.doxygen), method.parameters, <<>>))

\* AttributeDoc.parse: field_scope is [name, doxygen, access]
AttributeDoc_parse(field_scope) ==
    [from_doxygen_string(field_scope.doxygen) EXCEPT
        !.kind = "attribute", !.name = field_scope.name]

\* EnumeratorDoc.parse: enumerator is [name, doxygen]
EnumeratorDoc_parse(enumerator) ==
    [from_doxygen_string(enumerator.doxygen) EXCEPT
        !.kind = "enumerator", !.name = enumerator.name]

\* the loop of EnumDoc.parse over the commands: the name guard of `@enum`
RECURSIVE enum_commands(_, _, _)
enum_commands(commands, enum_name, desc) ==
    IF commands = <<>> THEN [status |-> "ok", desc |-> desc]
    ELSE LET cmd == Head(commands)
             guard(name_and_desc) ==
                 IF name_and_desc[1] # enum_name THEN [status |-> "none", desc |-> desc]
                 ELSE enum_commands(Tail(commands), enum_name,
                          IF Len(name_and_desc) > 1 /\ desc.some
                          THEN DocBlock(cmd.doc.elements \o desc.elements)
                          ELSE desc)
         IN  IF cmd.name = kw_enum /\ cmd.doc.some
             THEN IF cmd.doc.elements = <<>> THEN [status |-> "raise", desc |-> desc]
                  ELSE guard(split1(cmd.doc.elements[1].text))
             ELSE enum_commands(Tail(commands), enum_name, desc)

\* the enumerators of an enum, allocated in order
RECURSIVE parse_enumerators(_, _, _)
parse_enumerators(st, values, refs) ==
    IF values = <<>> THEN [st |-> st, refs |-> refs]
    ELSE LET continue(st1) == parse_enumerators(st1, Tail(values), Append(refs, last_ref(st1)))
         IN  continue(alloc(st, EnumeratorDoc_parse(Head(values))))

\* EnumDoc.parse: enum_decl is [name, doxygen, access, values]
EnumDoc_parse(st, enum_decl) ==
    LET return(st1) == [status |-> "ok", st |-> st1, ref |-> last_ref(st1)]
        construct(kwargs, guard, vals) ==
            IF guard.status = "ok"
            THEN return(alloc(vals.st, [kwargs EXCEPT !.kind = "enum", !.name = enum_decl.name,
                                                      !.desc = guard.desc, !.values = vals.refs]))
            ELSE [status |-> guard.status, st |-> st, ref |-> Null]
        check(kwargs) ==
            construct(kwargs,
                      enum_commands(commands_of(enum_decl.doxygen), enum_decl.name, kwargs.desc),
                      parse_enumerators(st, enum_decl.values, <<>>))
    IN  check(from_doxygen_string(enum_decl.doxygen))

\* the loop of ClassDoc.parse over the commands: the name guard of `@class`
RECURSIVE class_commands(_, _, _)
class_commands(commands, class_name, desc) ==
    IF commands = <<>> THEN [status |-> "ok", desc |-> desc]
    ELSE LET cmd == Head(commands)
             guard(name_and_desc) ==
                 IF name_and_desc[1] # class_name THEN [status |-> "none", desc |-> desc]
                 ELSE class_commands(Tail(commands), class_name,
                          IF Len(name_and_desc) > 1
                          THEN DocBlock(<<DocElement(name_and_desc[2], "text")>>
                                        \o Tail(cmd.doc.elements))
                          ELSE desc)
         IN  IF cmd.name = kw_class /\ cmd.doc.some
             THEN IF cmd.doc.elements = <<>> THEN [status |-> "raise", desc |-> desc]
                  ELSE guard(split1(cmd.doc.elements[1].text))
             ELSE class_commands(Tail(commands), class_name, desc)

\* the loop of ClassDoc.parse over class_scope.methods
RECURSIVE parse_methods(_, _, _)
parse_methods(st, methods, refs) ==
    IF methods = <<>> THEN [status |-> "ok", st |-> st, refs |-> refs]
    ELSE LET method == Head(methods) IN
         IF ~method.doxygen.has \/ method.access # "public"
         THEN parse_methods(st, Tail(methods), refs)
         ELSE LET continue(st1) == parse_methods(st1, Tail(methods), Append(refs, last_ref(st1)))
                  collect(m) ==
                      IF m.status = "raise" THEN [status |-> "raise", st |-> st, refs |-> refs]
                      ELSE continue(alloc(st, m.entity))
              IN  collect(MethodDoc_parse(method))

\* the loop of ClassDoc.parse over class_scope.fields
RECURSIVE parse_fields(_, _, _)
parse_fields(st, fields, refs) ==
    IF fields = <<>> THEN [st |-> st, refs |-> refs]
    ELSE IF Head(fields).access # "public" THEN parse_fields(st, Tail(fields), refs)
    ELSE LET continue(st1) == parse_fields(st1, Tail(fields), Append(refs, last_ref(st1)))
         IN  continue(alloc(st, AttributeDoc_parse(Head(fields))))

\* the loop of ClassDoc.parse over class_scope.enums
RECURSIVE parse_class_enums(_, _, _)
parse_class_enums(st, enum_decls, public_enums) ==
    IF enum_decls = <<>> THEN [status |-> "ok", st |-> st, public_enums |-> public_enums]
    ELSE LET enum == Head(enum_decls) IN
         IF enum.access # "public" THEN parse_class_enums(st, Tail(enum_decls), public_enums)
         ELSE LET collect(e) ==
                      IF e.status = "raise"
                      THEN [status |-> "raise", st |-> st, public_enums |-> public_enums]
                      ELSE IF e.status = "none"
                      THEN parse_class_enums(st, Tail(enum_decls), public_enums)
                      ELSE parse_class_enums(e.st, Tail(enum_decls),
                                             dict_set(public_enums, enum.name, e.ref))
              IN  collect(EnumDoc_parse(st, enum))

\* method.class_doc = instance / attr.class_doc = instance
wire_class_doc(heap, refs, instance) ==
    [r \in DOMAIN heap |->
        IF \E i \in 1..Len(refs) : refs[i] = r
        THEN [heap[r] EXCEPT !.class_doc = instance] ELSE heap[r]]

\* ClassDoc.parse: class_scope is [name, anonymous, doxygen, methods, fields,
\* enums, bases]; namespace is the reference of the owning NamespaceDoc
ClassDoc_parse(st, class_scope, namespace) ==
    LET wire(st1, members) ==
            [status |-> "ok",
             st |-> [st1 EXCEPT !.heap = wire_class_doc(st1.heap, members, last_ref(st1))],
             ref |-> last_ref(st1)]
        construct(kwargs, guard, ms, fs, es) ==
            IF es.status = "raise" THEN [status |-> "raise", st |-> st, ref |-> Null]
            ELSE wire(alloc(es.st, [kwargs EXCEPT
                          !.kind = "class", !.name = class_scope.name, !.desc = guard.desc,
                          !.public_methods = ms.refs, !.public_attributes = fs.refs,
                          !.public_enums = es.public_enums,
                          !.base_classes = class_scope.bases, !.namespace = namespace]),
                      ms.refs \o fs.refs)
        enums_of(kwargs, guard, ms, fs) ==
            construct(kwargs, guard, ms, fs,
                      parse_class_enums(fs.st, class_scope.enums, EmptyDict))
        fields_of(kwargs, guard, ms) ==
            IF ms.status = "raise" THEN [status |-> "raise", st |-> st, ref |-> Null]
            ELSE enums_of(kwargs, guard, ms, parse_fields(ms.st, class_scope.fields, <<>>))
        methods_of(kwargs, guard) ==
            IF guard.status # "ok" THEN [status |-> guard.status, st |-> st, ref |-> Null]
            ELSE fields_of(kwargs, guard, parse_methods(st, class_scope.methods, <<>>))
        check(kwargs) ==
            methods_of(kwargs, class_commands(commands_of(class_scope.doxygen),
                                              class_scope.name, kwargs.desc))
    IN  IF class_scope.anonymous THEN [status |-> "none", st |-> st, ref |-> Null]
        ELSE check(from_doxygen_string(class_scope.doxygen))

\* NamespaceDoc.parse, were an empty @namespace command let through
NamespaceDoc_parse_unguarded(namespace_scope) ==
    [status |-> "ok",
     entity |-> [from_doxygen_string(namespace_scope.doxygen) EXCEPT
                    !.kind = "namespace", !.name = namespace_scope.name]]

\* NamespaceDoc.parse: namespace_scope is [name, doxygen, classes, enums]
NamespaceDoc_parse(namespace_scope) ==
    LET guard(entity, name_and_desc) ==
            IF name_and_desc[1] # namespace_scope.name THEN [status |-> "none"]
            ELSE IF Len(name_and_desc) > 1
            THEN [status |-> "ok",
                  entity |-> [entity EXCEPT !.desc =
                                IF @.some
                                THEN DocBlock(<<DocElement(name_and_desc[2], "text")>> \o @.elements)
                                ELSE DocBlock(<<DocElement(name_and_desc[2], "text")>>)]]
            ELSE [status |-> "ok", entity |-> entity]
        check(entity, commands, namespace_command) ==
            IF \A i \in 1..Len(commands) : commands[i].name # kw_namespace
            THEN [status |-> "ok", entity |-> entity]
            ELSE IF namespace_command.elements = <<>> THEN [status |-> "none"]
            ELSE guard(entity, split1(namespace_command.elements[1].text))
    IN  check([from_doxygen_string(namespace_scope.doxygen) EXCEPT
                  !.kind = "namespace", !.name = namespace_scope.name],
              commands_of(namespace_scope.doxygen),
              first_doc(commands_of(namespace_scope.doxygen), {kw_namespace}))

\* os.path.basename: what follows the last "/"
RECURSIVE basename(_)
basename(path) ==
    IF \E i \in 1..Len(path) : path[i] = "/" THEN basename(Tail(path)) ELSE path

\* FileDoc.parse
FileDoc_parse(file_path) ==
    [EntityDoc EXCEPT !.kind = "file", !.name = basename(file_path), !.desc = DocBlock(<<>>)]

(***************************************************************************)
(* parse(): the loop body for one file (parse.py lines 53-95).             *)
(***************************************************************************)
\* namespaces[name].classes[class_doc.name] = class_doc, and the same for enums
register_class(st, ns, name, ref) ==
    [st EXCEPT !.heap[ns].classes = dict_set(@, name, ref),
               !.classes = dict_set(@, name, ref),
               !.file_classes = dict_set(@, name, ref)]

register_enum(st, ns, name, ref) ==
    [st EXCEPT !.heap[ns].enums = dict_set(@, name, ref),
               !.enums = dict_set(@, name, ref),
               !.file_enums = dict_set(@, name, ref)]

\* for cls in ns.classes
RECURSIVE parse_classes(_, _, _)
parse_classes(st, class_scopes, ns) ==
    IF class_scopes = <<>> THEN st
    ELSE LET register(c) ==
                 IF c.status = "raise" THEN [st EXCEPT !.raised = TRUE]
                 ELSE IF c.status = "none" THEN parse_classes(st, Tail(class_scopes), ns)
                 ELSE parse_classes(register_class(c.st, ns, Head(class_scopes).name, c.ref),
                                    Tail(class_scopes), ns)
         IN  register(ClassDoc_parse(st, Head(class_scopes), ns))

\* for enum in ns.enums
RECURSIVE parse_enums(_, _, _)
parse_enums(st, enum_decls, ns) ==
    IF enum_decls = <<>> THEN st
    ELSE LET register(e) ==
                 IF e.status = "raise" THEN [st EXCEPT !.raised = TRUE]
                 ELSE IF e.status = "none" THEN parse_enums(st, Tail(enum_decls), ns)
                 ELSE parse_enums(register_enum(e.st, ns, Head(enum_decls).name, e.ref),
                                  Tail(enum_decls), ns)
         IN  register(EnumDoc_parse(st, Head(enum_decls)))

\* for ns in data.namespace.namespaces.values()
RECURSIVE parse_namespaces(_, _)
parse_namespaces(st, namespace_scopes) ==
    IF namespace_scopes = <<>> \/ st.raised THEN st
    ELSE LET ns == Head(namespace_scopes)
             enums_of(st3, ref) ==
                 IF st3.raised THEN st3
                 ELSE parse_namespaces(parse_enums(st3, ns.enums, ref), Tail(namespace_scopes))
             classes_of(st1, ref) ==
                 enums_of(parse_classes([st1 EXCEPT !.file_namespaces = dict_set(@, ns.name, ref)],
                                        ns.classes, ref),
                          ref)
             added(a) == [a EXCEPT !.namespaces = dict_set(@, ns.name, last_ref(a))]
             coalesce(st1) == classes_of(st1, st1.namespaces[ns.name])
             register(namespace_doc) ==
                 IF namespace_doc.status = "none"
                 THEN parse_namespaces(st, Tail(namespace_scopes))
                 ELSE IF ns.name \notin DOMAIN st.namespaces
                 THEN coalesce(added(alloc(st, namespace_doc.entity)))
                 ELSE coalesce(st)
         IN  register(NamespaceDoc_parse(ns))

\* one iteration of `for file_path in file_list`: file is [path, parsable,
\* namespaces]; a file that parse_file rejects is skipped
parse_one_file(st, file) ==
    LET register(st2) == [st2 EXCEPT !.files = dict_set(@, file.path, last_ref(st2))]
        file_doc(st1) ==
            IF st1.raised THEN [st EXCEPT !.raised = TRUE]
            ELSE register(alloc(st1, [FileDoc_parse(file.path) EXCEPT
                                         !.namespaces = st1.file_namespaces,
                                         !.classes = st1.file_classes,
                                         !.enums = st1.file_enums]))
    IN  IF ~file.parsable THEN st
        ELSE file_doc(parse_namespaces([st EXCEPT !.file_namespaces = EmptyDict,
                                                   !.file_classes = EmptyDict,
                                                   !.file_enums = EmptyDict],
                                       file.namespaces))

(***************************************************************************)
(* Cross-reference resolver.  h is the heap; a result of Null is None.     *)
(***************************************************************************)
\* next((m for m in refs if m.name == name), None)
RECURSIVE first_named(_, _, _)
first_named(h, refs, name) ==
    IF refs = <<>> THEN Null
    ELSE IF h[Head(refs)].name = name THEN Head(refs)
    ELSE first_named(h, Tail(refs), name)

\* the member lookup shared by ClassDoc.find_token_reference and
\* ClassDoc._find_reference
class_member(h, self, next_token) ==
    LET lookup(method, attribute) ==
            IF endswith(next_token, <<"(", ")">>) /\ method # Null THEN method
            ELSE IF attribute # Null THEN attribute
            ELSE IF next_token \in DOMAIN h[self].public_enums
            THEN h[self].public_enums[next_token]
            ELSE Null
    IN  lookup(first_named(h, h[self].public_methods, rstrip(next_token, {"(", ")"})),
               first_named(h, h[self].public_attributes, next_token))

\* ClassDoc.find_token_reference
ClassDoc_find_token_reference(h, self, tokens) ==
    IF tokens = <<>> THEN self ELSE class_member(h, self, tokens[1])

\* NamespaceDoc.find_token_reference
NamespaceDoc_find_token_reference(h, self, tokens) ==
    IF tokens = <<>> THEN self
    ELSE IF tokens[1] \in DOMAIN h[self].classes
         THEN ClassDoc_find_token_reference(h, h[self].classes[tokens[1]], Tail(tokens))
    ELSE IF tokens[1] \in DOMAIN h[self].enums THEN h[self].enums[tokens[1]]
    ELSE Null

\* EntityDoc._find_reference: the global namespace table
EntityDoc_find_reference(h, self, tokens, namespace_docs) ==
    IF tokens = <<>> \/ tokens[1] \notin DOMAIN namespace_docs THEN Null
    ELSE NamespaceDoc_find_token_reference(h, namespace_docs[tokens[1]], Tail(tokens))

\* MethodDoc._find_reference as it would be with the scopes in the other
\* order: the class, then its namespace, then the global namespace table
MethodDoc_find_reference_local_first(h, self, tokens, namespace_docs) ==
    LET class_doc == h[self].class_doc
        in_scope(in_class) ==
            IF in_class # Null THEN in_class
            ELSE NamespaceDoc_find_token_reference(h, h[class_doc].namespace, tokens)
        global(local) ==
            IF local # Null THEN local
            ELSE EntityDoc_find_reference(h, self, tokens, namespace_docs)
    IN  IF class_doc = Null THEN EntityDoc_find_reference(h, self, tokens, namespace_docs)
        ELSE global(in_scope(ClassDoc_find_token_reference(h, class_doc, tokens)))

\* MethodDoc._find_reference
MethodDoc_find_reference(h, self, tokens, namespace_docs) ==
    LET class_doc == h[self].class_doc
        in_scope(in_class) ==
            IF in_class # Null THEN in_class
            ELSE NamespaceDoc_find_token_reference(h, h[class_doc].namespace, tokens)
        local(global) ==
            IF global # Null THEN global
            ELSE IF class_doc = Null THEN Null
            ELSE in_scope(ClassDoc_find_token_reference(h, class_doc, tokens))
    IN  local(EntityDoc_find_reference(h, self, tokens, namespace_docs))

\* ClassDoc._find_reference
ClassDoc_find_reference(h, self, tokens, namespace_docs) ==
    LET in_scope(in_namespace) ==
            IF in_namespace # Null THEN in_namespace
            ELSE IF tokens = <<>> THEN Null
            ELSE class_member(h, self, tokens[1])
        local(global) ==
            IF global # Null THEN global
            ELSE in_scope(NamespaceDoc_find_token_reference(h, h[self].namespace, tokens))
    IN  local(EntityDoc_find_reference(h, self, tokens, namespace_docs))

\* NamespaceDoc._find_reference
NamespaceDoc_find_reference(h, self, tokens, namespace_docs) ==
    LET local(global) ==
            IF global # Null THEN global
            ELSE IF tokens = <<>> THEN Null
            ELSE IF tokens[1] \in DOMAIN h[self].classes
            THEN ClassDoc_find_token_reference(h, h[self].classes[tokens[1]], Tail(tokens))
            ELSE IF tokens[1] \in DOMAIN h[self].enums THEN h[self].enums[tokens[1]]
            ELSE Null
    IN  local(EntityDoc_find_reference(h, self, tokens, namespace_docs))

\* self._find_reference, dispatched on the class of self; AttributeDoc,
\* EnumDoc, EnumeratorDoc and FileDoc inherit EntityDoc._find_reference
find_reference(h, self, tokens, namespace_docs) ==
    IF h[self].kind = "method" THEN MethodDoc_find_reference(h, self, tokens, namespace_docs)
    ELSE IF h[self].kind = "class" THEN ClassDoc_find_reference(h, self, tokens, namespace_docs)
    ELSE IF h[self].kind = "namespace"
         THEN NamespaceDoc_find_reference(h, self, tokens, namespace_docs)
    ELSE EntityDoc_find_reference(h, self, tokens, namespace_docs)

(***************************************************************************)
(* The two callbacks of a rendering configuration.  They are pure and      *)
(* external; a configuration cfg renders a link as the bracketed list of   *)
(* the four arguments it was called with, and a code block as the text     *)
(* between two marks.                                                      *)
(***************************************************************************)
Configs == {"A", "B"}

LinkOpen == [cfg \in Configs |-> IF cfg = "A" THEN "[" ELSE "{"]
LinkClose == [cfg \in Configs |-> IF cfg = "A" THEN "]" ELSE "}"]

class_link(cfg, word, namespace, klass, method) ==
    <<LinkOpen[cfg]>> \o word \o <<"|">> \o namespace \o <<"|">> \o klass
        \o <<"|">> \o method \o <<LinkClose[cfg]>>

code_template(cfg, text) == <<"<", cfg>> \o text \o <<">">>

\* the reference markers
RefMarkers == {<<"@", "r", "e", "f">>, <<"\\", "r", "e", "f">>}

\* process_word as it would be if it handed the word to class_link as
\* written, without word.replace("#", "::")
process_word_raw(h, self, word, namespace_docs, cfg) ==
    LET call(w, n, k, m) == [out |-> class_link(cfg, w, n, k, m), calls |-> << <<w, n, k, m>> >>]
        unchanged == [out |-> word, calls |-> <<>>]
        link(e) ==
            IF e.kind = "class" THEN call(word, h[e.namespace].name, e.name, <<>>)
            ELSE IF e.kind \in {"method", "attribute"}
            THEN IF e.class_doc # Null
                 THEN call(word, h[h[e.class_doc].namespace].name, h[e.class_doc].name, e.name)
                 ELSE unchanged
            ELSE IF e.kind = "namespace" THEN call(word, e.name, <<>>, <<>>)
            ELSE unchanged
        resolve(entity) == IF entity = Null THEN unchanged ELSE link(h[entity])
    IN  IF word \in RefMarkers THEN [out |-> <<>>, calls |-> <<>>]
        ELSE resolve(find_reference(h, self, re_split(word), namespace_docs))

\* process_word of EntityDoc._update_text_block: `out` is the returned word,
\* `calls` the class_link calls made, as <<word, namespace, klass, method>>
process_word(h, self, word, namespace_docs, cfg) ==
    LET call(w, n, k, m) == [out |-> class_link(cfg, w, n, k, m), calls |-> << <<w, n, k, m>> >>]
        unchanged == [out |-> word, calls |-> <<>>]
        link(e, linked) ==
            IF e.kind = "class" THEN call(linked, h[e.namespace].name, e.name, <<>>)
            ELSE IF e.kind \in {"method", "attribute"}
            THEN IF e.class_doc # Null
                 THEN call(linked, h[h[e.class_doc].namespace].name, h[e.class_doc].name, e.name)
                 ELSE unchanged
            ELSE IF e.kind = "namespace" THEN call(word, e.name, <<>>, <<>>)
            ELSE unchanged
        resolve(entity) ==
            IF entity = Null THEN unchanged
            ELSE link(h[entity], replace(word, <<"#">>, <<":", ":">>))
    IN  IF word \in RefMarkers THEN [out |-> <<>>, calls |-> <<>>]
        ELSE resolve(find_reference(h, self, re_split(word), namespace_docs))

\* the punctuation that utils.modify_sentence strips on each side of a word
LeftPunct == {";", ",", "'", "\"", "(", ")", "[", "]", "{", "}"}
RightPunct == {";", ",", "'", "\"", ".", "?", "!", ":"}

strip_word(word) == rstrip(lstrip(word, LeftPunct), RightPunct)

\* modify_sentence as it would be if it kept the callback's result in place
\* of the whole word and not of the stripped part of it
RECURSIVE modify_words_stripped(_, _, _, _, _)
modify_words_stripped(h, self, words, namespace_docs, cfg) ==
    IF words = <<>> THEN [words |-> <<>>, calls |-> <<>>]
    ELSE LET collect(modified, rest) ==
                 [words |-> <<modified.out>> \o rest.words,
                  calls |-> modified.calls \o rest.calls]
         IN  collect(process_word(h, self, strip_word(Head(words)), namespace_docs, cfg),
                     modify_words_stripped(h, self, Tail(words), namespace_docs, cfg))

\* utils.modify_sentence, with update_word_callback = process_word.  The
\* filter `if word` tests the word of the input, which str.split() never
\* leaves empty, so it keeps every word.
RECURSIVE modify_words(_, _, _, _, _)
modify_words(h, self, words, namespace_docs, cfg) ==
    IF words = <<>> THEN [words |-> <<>>, calls |-> <<>>]
    ELSE LET word == Head(words)
             collect(stripped, modified, rest) ==
                 [words |-> (IF word # <<>> THEN <<replace(word, stripped, modified.out)>>
                             ELSE <<>>) \o rest.words,
                  calls |-> modified.calls \o rest.calls]
             modify(stripped) ==
                 collect(stripped, process_word(h, self, stripped, namespace_docs, cfg),
                         modify_words(h, self, Tail(words), namespace_docs, cfg))
         IN  modify(strip_word(word))

\* EntityDoc._update_text_block, with the class_link calls it makes
update_text_block(h, self, text, namespace_docs, cfg) ==
    LET joined(r) == [out |-> join(r.words), calls |-> r.calls]
    IN  joined(modify_words(h, self, split(text), namespace_docs, cfg))

\* _update_doc_block as it would be if it resolved references in every
\* element, whatever its type
RECURSIVE update_elements_all_text(_, _, _, _, _)
update_elements_all_text(h, self, elements, namespace_docs, cfg) ==
    IF elements = <<>> THEN <<>>
    ELSE <<DocElement(update_text_block(h, self, Head(elements).text, namespace_docs, cfg).out,
                      Head(elements).element_type)>>
         \o update_elements_all_text(h, self, Tail(elements), namespace_docs, cfg)

\* EntityDoc._update_doc_block
RECURSIVE update_elements(_, _, _, _, _)
update_elements(h, self, elements, namespace_docs, cfg) ==
    IF elements = <<>> THEN <<>>
    ELSE LET element == Head(elements)
             updated_text ==
                 IF element.element_type \in {"code", "verbatim"}
                 THEN code_template(cfg, element.text)
                 ELSE IF element.element_type = "text"
                 THEN update_text_block(h, self, element.text, namespace_docs, cfg).out
                 ELSE <<>>
         IN  <<DocElement(updated_text, element.element_type)>>
             \o update_elements(h, self, Tail(elements), namespace_docs, cfg)

update_doc_block(h, self, block, namespace_docs, cfg) ==
    DocBlock(update_elements(h, self, block.elements, namespace_docs, cfg))

(***************************************************************************)
(* post_process of each entity class.  Each takes the heap and returns the *)
(* heap after the call.                                                    *)
(***************************************************************************)
\* dict.values() as a sequence.  Python iterates in insertion order; the
\* order chosen here is arbitrary, and every loop over it below updates
\* disjoint objects.
RECURSIVE values_seq(_)
values_seq(d) ==
    IF DOMAIN d = {} THEN <<>>
    ELSE LET k == CHOOSE x \in DOMAIN d : TRUE IN
         <<d[k]>> \o values_seq([x \in DOMAIN d \ {k} |-> d[x]])

\* EntityDoc.post_process
EntityDoc_post_process(h, self, namespace_docs, cfg) ==
    [h EXCEPT
        ![self].brief = IF @.some THEN update_doc_block(h, self, @, namespace_docs, cfg) ELSE @,
        ![self].desc = IF @.some THEN update_doc_block(h, self, @, namespace_docs, cfg) ELSE @]

\* MethodDoc.post_process
MethodDoc_post_process(h, self, namespace_docs, cfg) ==
    LET own(h1) ==
            [h1 EXCEPT
                ![self].params = [i \in 1..Len(@) |->
                    [@[i] EXCEPT !.desc = update_doc_block(h1, self, @, namespace_docs, cfg)]],
                ![self].returns =
                    IF @.some THEN update_doc_block(h1, self, @, namespace_docs, cfg) ELSE @]
    IN  own(EntityDoc_post_process(h, self, namespace_docs, cfg))

RECURSIVE post_process_entities(_, _, _, _)
post_process_entities(h, refs, namespace_docs, cfg) ==
    IF refs = <<>> THEN h
    ELSE post_process_entities(EntityDoc_post_process(h, Head(refs), namespace_docs, cfg),
                               Tail(refs), namespace_docs, cfg)

RECURSIVE post_process_methods(_, _, _, _)
post_process_methods(h, refs, namespace_docs, cfg) ==
    IF refs = <<>> THEN h
    ELSE post_process_methods(MethodDoc_post_process(h, Head(refs), namespace_docs, cfg),
                              Tail(refs), namespace_docs, cfg)

\* EnumDoc.post_process
EnumDoc_post_process(h, self, namespace_docs, cfg) ==
    post_process_entities(EntityDoc_post_process(h, self, namespace_docs, cfg),
                          h[self].values, namespace_docs, cfg)

RECURSIVE post_process_enums(_, _, _, _)
post_process_enums(h, refs, namespace_docs, cfg) ==
    IF refs = <<>> THEN h
    ELSE post_process_enums(EnumDoc_post_process(h, Head(refs), namespace_docs, cfg),
                            Tail(refs), namespace_docs, cfg)

\* ClassDoc.post_process
ClassDoc_post_process(h, self, namespace_docs, cfg) ==
    LET h1 == EntityDoc_post_process(h, self, namespace_docs, cfg)
        h2 == post_process_methods(h1, h[self].public_methods, namespace_docs, cfg)
        h3 == post_process_entities(h2, h[self].public_attributes, namespace_docs, cfg)
    IN  post_process_enums(h3, values_seq(h[self].public_enums), namespace_docs, cfg)

\* NamespaceDoc.post_process
NamespaceDoc_post_process(h, self, namespace_docs, cfg) ==
    post_process_enums(EntityDoc_post_process(h, self, namespace_docs, cfg),
                       values_seq(h[self].enums), namespace_docs, cfg)

\* self.post_process(...), dispatched on the class of self
entity_post_process(h, self, namespace_docs, cfg) ==
    IF h[self].kind = "method" THEN MethodDoc_post_process(h, self, namespace_docs, cfg)
    ELSE IF h[self].kind = "class" THEN ClassDoc_post_process(h, self, namespace_docs, cfg)
    ELSE IF h[self].kind = "enum" THEN EnumDoc_post_process(h, self, namespace_docs, cfg)
    ELSE IF h[self].kind = "namespace" THEN NamespaceDoc_post_process(h, self, namespace_docs, cfg)
    ELSE EntityDoc_post_process(h, self, namespace_docs, cfg)

(***************************************************************************)
(* ClassDoc.inheritance_tree.  `cls not in result` compares with ==, which *)
(* for two ClassDocs of one namespace map is decided by their names, and   *)
(* these differ: it is identity of the objects.                            *)
(*                                                                         *)
(* The getter calls itself through the getter of each base, and            *)
(* cached_property stores the list only when the getter returns.  `active` *)
(* is the set of classes whose getter is on the call stack: a read of the  *)
(* property of one of them starts the same computation again, below        *)
(* itself, without end, until the interpreter's recursion limit raises     *)
(* RecursionError, which nothing catches.  A result is the list, or        *)
(* `raised` when the read ends with that exception.                        *)
(***************************************************************************)
\* the inner loop as it would be without the test `cls not in result`
append_new_unchecked(result, base_inheritance_tree) == result \o base_inheritance_tree

\* for cls in base_inheritance_tree: if cls not in result: result.append(cls)
RECURSIVE append_new(_, _)
append_new(result, base_inheritance_tree) ==
    IF base_inheritance_tree = <<>> THEN result
    ELSE IF \E i \in 1..Len(result) : result[i] = Head(base_inheritance_tree)
         THEN append_new(result, Tail(base_inheritance_tree))
    ELSE append_new(Append(result, Head(base_inheritance_tree)), Tail(base_inheritance_tree))

RECURSIVE inheritance_tree_from(_, _, _)
RECURSIVE merge_base_classes(_, _, _, _, _)
\* for base_class in self.base_classes
merge_base_classes(h, self, base_classes, result, active) ==
    IF base_classes = <<>> THEN [raised |-> FALSE, tree |-> result]
    ELSE IF Head(base_classes) \notin DOMAIN h[h[self].namespace].classes
         THEN merge_base_classes(h, self, Tail(base_classes), result, active)
    ELSE LET merge(base_inheritance_tree) ==
                 IF base_inheritance_tree.raised THEN base_inheritance_tree
                 ELSE merge_base_classes(h, self, Tail(base_classes),
                          append_new(result, base_inheritance_tree.tree), active)
         IN  merge(inheritance_tree_from(h, h[h[self].namespace].classes[Head(base_classes)],
                                         active))

\* the getter of self.inheritance_tree, entered with the getters of `active`
\* on the call stack
inheritance_tree_from(h, self, active) ==
    IF self \in active THEN [raised |-> TRUE, tree |-> <<>>]
    ELSE merge_base_classes(h, self, h[self].base_classes, <<self>>, active \cup {self})

\* a first read of self.inheritance_tree
inheritance_tree(h, self) == inheritance_tree_from(h, self, {})

(***************************************************************************)
(* copy.deepcopy of a ParsedDocData: every object reachable from the four  *)
(* tables gets a copy in generation gen, with the same index.              *)
(***************************************************************************)
seq_range(refs) == {refs[i] : i \in 1..Len(refs)}

\* the references an entity holds
refs_of(e) ==
    ({e.class_doc, e.namespace} \cup seq_range(e.values) \cup seq_range(e.public_methods)
       \cup seq_range(e.public_attributes) \cup dict_values(e.public_enums)
       \cup dict_values(e.classes) \cup dict_values(e.enums) \cup dict_values(e.namespaces))
    \ {Null}

RECURSIVE reachable(_, _)
reachable(h, refs) ==
    LET more == refs \cup UNION {refs_of(h[r]) : r \in refs} IN
    IF more = refs THEN refs ELSE reachable(h, more)

move(ref, gen) == IF ref = Null THEN Null ELSE <<gen, ref[2]>>

move_seq(refs, gen) == [i \in 1..Len(refs) |-> move(refs[i], gen)]

move_dict(d, gen) == [k \in DOMAIN d |-> move(d[k], gen)]

copy_entity(e, gen) ==
    [e EXCEPT !.class_doc = move(@, gen), !.namespace = move(@, gen),
              !.values = move_seq(@, gen), !.public_methods = move_seq(@, gen),
              !.public_attributes = move_seq(@, gen), !.public_enums = move_dict(@, gen),
              !.classes = move_dict(@, gen), !.enums = move_dict(@, gen),
              !.namespaces = move_dict(@, gen)]

\* the objects that deepcopy(parsed_data) adds to the heap
deepcopy_heap(h, parsed_data, gen) ==
    LET roots == dict_values(parsed_data.namespaces) \cup dict_values(parsed_data.classes)
                 \cup dict_values(parsed_data.enums) \cup dict_values(parsed_data.files)
        objs == reachable(h, roots)
    IN  [r \in {move(o, gen) : o \in objs} |-> copy_entity(h[<<0, r[2]>>], gen)]

\* the ParsedDocData that deepcopy(parsed_data) returns
deepcopy_data(parsed_data, gen) ==
    [namespaces |-> move_dict(parsed_data.namespaces, gen),
     classes |-> move_dict(parsed_data.classes, gen),
     enums |-> move_dict(parsed_data.enums, gen),
     files |-> move_dict(parsed_data.files, gen)]

(***************************************************************************)
(* parse.post_process (parse.py lines 104-115).  Returns the heap after    *)
(* the call, the returned ParsedDocData, and the ClassDoc objects whose    *)
(* post_process was called, in call order.                                 *)
(***************************************************************************)
RECURSIVE post_process_namespaces(_, _, _, _)
post_process_namespaces(h, refs, namespace_docs, cfg) ==
    IF refs = <<>> THEN h
    ELSE post_process_namespaces(NamespaceDoc_post_process(h, Head(refs), namespace_docs, cfg),
                                 Tail(refs), namespace_docs, cfg)

RECURSIVE post_process_classes(_, _, _, _)
post_process_classes(h, refs, namespace_docs, cfg) ==
    IF refs = <<>> THEN h
    ELSE post_process_classes(ClassDoc_post_process(h, Head(refs), namespace_docs, cfg),
                              Tail(refs), namespace_docs, cfg)

\* post_process as it would be without the deep copy: the pass rewrites the
\* objects of the graph it was given
post_process_in_place(h, data, cfg, gen) ==
    LET pass(class_calls) ==
            [heap |-> post_process_classes(
                          post_process_namespaces(h, values_seq(data.namespaces),
                                                  data.namespaces, cfg),
                          class_calls, data.namespaces, cfg),
             data |-> data, class_calls |-> class_calls]
    IN  pass(values_seq(data.classes))

post_process(h, data, cfg, gen) ==
    LET pass(post_processed_parsed_data, class_calls) ==
            [heap |-> post_process_classes(
                          post_process_namespaces(deepcopy_heap(h, data, gen) @@ h,
                              values_seq(post_processed_parsed_data.namespaces),
                              data.namespaces, cfg),
                          class_calls, data.namespaces, cfg),
             data |-> post_processed_parsed_data, class_calls |-> class_calls]
    IN  pass(deepcopy_data(data, gen), values_seq(deepcopy_data(data, gen).classes))

(***************************************************************************)
(* The declaration graphs that parse() reads (the output of the external   *)
(* structural parser), one per input file.                                 *)
(***************************************************************************)
text(s) == DocElement(s, "text")
code(s) == DocElement(s, "code")

\* x/a.h: namespace n with classes F (method b, attributes a and m, enum E)
\* and G (derived from F), and enum D
FileA ==
    [path |-> <<"x", "/", "a", ".", "h">>, parsable |-> TRUE,
     namespaces |-> <<
       [name |-> <<"n">>,
        doxygen |-> Doxygen(<<CommandDoc(kw_brief, <<text(<<"n", " ", "h", "a", "s", " ", "F">>)>>)>>),
        classes |-> <<
          [name |-> <<"F">>, anonymous |-> FALSE,
           doxygen |-> Doxygen(<<CommandDoc(kw_anonymous, <<text(<<"u", "s", "e", "s", " ", "(", "m", ":", ":", "F", ")">>),
                                                            code(<<"F", " ", "x", ";">>)>>),
                                 CommandDoc(kw_brief, <<text(<<"s", "e", "e", " ", "G">>)>>)>>),
           methods |-> <<
             [name |-> <<"b">>, access |-> "public", parameters |-> <<[name |-> <<"p">>, type |-> <<"i", "n", "t">>]>>,
              doxygen |-> Doxygen(<<CommandDoc(kw_brief, <<text(<<"c", "a", "l", "l", "s", " ", "F", ":", ":", "b", "(", ")">>)>>),
                                    CommandDoc(kw_param, <<text(<<"p", " ", "t", "h", "e", " ", "G", "#", "b", "(", ")">>)>>),
                                    CommandDoc(kw_return, <<text(<<"a", "n", " ", "F", ".">>)>>)>>)],
             [name |-> <<"h">>, access |-> "private", parameters |-> <<>>,
              doxygen |-> Doxygen(<<CommandDoc(kw_brief, <<text(<<"h", "i", "d", "d", "e", "n">>)>>)>>)]>>,
           fields |-> <<
             [name |-> <<"a">>, access |-> "public",
              doxygen |-> Doxygen(<<CommandDoc(kw_anonymous, <<text(<<"s", "e", "e", " ", "b", "(", ")", " ", "a", "n", "d", " ", "n", ":", ":", "G">>)>>)>>)],
             [name |-> <<"m">>, access |-> "public", doxygen |-> NoDoxygen]>>,
           enums |-> <<
             [name |-> <<"E">>, access |-> "public", doxygen |-> NoDoxygen,
              values |-> <<[name |-> <<"v">>,
                            doxygen |-> Doxygen(<<CommandDoc(kw_brief,
                                                    <<text(<<"v", " ", "o", "f", " ", "n", ":", ":", "F">>)>>)>>)]>>]>>,
           bases |-> <<>>],
          [name |-> <<"G">>, anonymous |-> FALSE, doxygen |-> NoDoxygen,
           methods |-> <<
             [name |-> <<"b">>, access |-> "public", parameters |-> <<>>,
              doxygen |-> Doxygen(<<CommandDoc(kw_anonymous, <<text(<<"l", "i", "k", "e", " ", "F", ":", ":", "b", "(", ")">>)>>)>>)]>>,
           fields |-> <<>>, enums |-> <<>>, bases |-> << <<"F">> >>]>>,
        enums |-> <<
          [name |-> <<"D">>, access |-> "public",
           doxygen |-> Doxygen(<<CommandDoc(kw_brief, <<text(<<"s", "e", "e", " ", "n", ":", ":", "F">>)>>)>>),
           values |-> <<>>]>>]>>]

\* y/b.h: namespace m with a class that is also called F
FileB ==
    [path |-> <<"y", "/", "b", ".", "h">>, parsable |-> TRUE,
     namespaces |-> <<
       [name |-> <<"m">>, doxygen |-> NoDoxygen,
        classes |-> <<
          [name |-> <<"F">>, anonymous |-> FALSE,
           doxygen |-> Doxygen(<<CommandDoc(kw_brief, <<text(<<"o", "t", "h", "e", "r", " ", "F", ",", " ", "s", "e", "e", " ", "n", ":", ":", "F", "#", "a">>)>>)>>),
           methods |-> <<>>, fields |-> <<>>, enums |-> <<>>, bases |-> <<>>]>>,
        enums |-> <<>>]>>]

\* c.h: namespace n reopened, with class F declared again
FileC ==
    [path |-> <<"c", ".", "h">>, parsable |-> TRUE,
     namespaces |-> <<
       [name |-> <<"n">>,
        doxygen |-> Doxygen(<<CommandDoc(kw_namespace, <<text(<<"n", " ", "a", "g", "a", "i", "n">>)>>)>>),
        classes |-> <<
          [name |-> <<"F">>, anonymous |-> FALSE,
           doxygen |-> Doxygen(<<CommandDoc(kw_class, <<text(<<"F", " ", "s", "e", "c", "o", "n", "d", " ", "F">>)>>)>>),
           methods |-> <<>>,
           fields |-> <<[name |-> <<"a">>, access |-> "public", doxygen |-> NoDoxygen]>>,
           enums |-> <<>>, bases |-> <<>>]>>,
        enums |-> <<>>]>>]

\* d.h: a namespace whose comment documents another namespace, and a
\* namespace holding a class whose comment documents another class
FileD ==
    [path |-> <<"d", ".", "h">>, parsable |-> TRUE,
     namespaces |-> <<
       [name |-> <<"n">>,
        doxygen |-> Doxygen(<<CommandDoc(kw_namespace, <<text(<<"m">>)>>)>>),
        classes |-> <<
          [name |-> <<"G">>, anonymous |-> FALSE, doxygen |-> NoDoxygen,
           methods |-> <<>>, fields |-> <<>>, enums |-> <<>>, bases |-> <<>>]>>,
        enums |-> <<>>],
       [name |-> <<"m">>, doxygen |-> NoDoxygen,
        classes |-> <<
          [name |-> <<"G">>, anonymous |-> FALSE,
           doxygen |-> Doxygen(<<CommandDoc(kw_class, <<text(<<"F">>)>>)>>),
           methods |-> <<>>, fields |-> <<>>, enums |-> <<>>, bases |-> <<>>]>>,
        enums |-> <<
          [name |-> <<"D">>, access |-> "public", doxygen |-> NoDoxygen, values |-> <<>>]>>]>>]

\* e.h: a file that parse_file rejects
FileE == [path |-> <<"e", ".", "h">>, parsable |-> FALSE, namespaces |-> <<>>]

Files == <<FileA, FileB, FileC, FileD, FileE>>

(***************************************************************************)
(* The program: parse() reads files one by one, returns a ParsedDocData,   *)
(* and run() calls post_process() on it once per template configuration.   *)
(***************************************************************************)
VARIABLES
    heap,        \* the objects, by reference
    next,        \* the next free index of generation 0
    namespaces,  \* parse(): namespaces, later ParsedDocData.namespaces
    classes,     \* parse(): classes
    enums,       \* parse(): enums
    files,       \* parse(): files
    pc,          \* "parse", "raised" (an exception left parse), "parsed"
    done,        \* the indices in Files of the files read so far
    results,     \* what the calls of post_process returned, in call order
    input,       \* the arguments of the last call of a single method
    output,      \* what that call returned
    frame        \* the local variables of the running call of process_lines

vars == <<heap, next, namespaces, classes, enums, files, pc, done, results, input, output, frame>>

\* no single method has been called
NoCall == [op |-> "none"]

\* process_lines is not running
NoFrame == [pc |-> "idle"]

parsed_data == [namespaces |-> namespaces, classes |-> classes, enums |-> enums, files |-> files]

Init ==
    /\ heap = <<>>
    /\ next = 1
    /\ namespaces = EmptyDict
    /\ classes = EmptyDict
    /\ enums = EmptyDict
    /\ files = EmptyDict
    /\ pc = "parse"
    /\ done = <<>>
    /\ results = <<>>
    /\ input = NoCall
    /\ output = NoCall
    /\ frame = NoFrame

\* one iteration of the loop over the files
ParseFile(f) ==
    /\ pc = "parse"
    /\ Len(done) < MaxFiles
    /\ f \notin seq_range(done)
    /\ \E st \in {parse_one_file([EmptyStore EXCEPT !.heap = heap, !.next = next,
                                      !.namespaces = namespaces, !.classes = classes,
                                      !.enums = enums, !.files = files], Files[f])} :
           /\ heap' = st.heap
           /\ next' = st.next
           /\ namespaces' = st.namespaces
           /\ classes' = st.classes
           /\ enums' = st.enums
           /\ files' = st.files
           /\ pc' = IF st.raised THEN "raised" ELSE "parse"
    /\ done' = Append(done, f)
    /\ UNCHANGED <<results, input, output, frame>>

\* parse() returns the ParsedDocData
ParseReturn ==
    /\ pc = "parse"
    /\ pc' = "parsed"
    /\ UNCHANGED <<heap, next, namespaces, classes, enums, files, done, results, input, output, frame>>

\* run() calls post_process(parsed_data, ...) for a template configuration
PostProcess(cfg) ==
    /\ pc = "parsed"
    /\ Len(results) < MaxRuns
    /\ \E r \in {post_process(heap, parsed_data, cfg, Len(results) + 1)} :
       /\ heap' = r.heap
       /\ results' = Append(results, [cfg |-> cfg, data |-> r.data,
                                      class_calls |-> r.class_calls])
    /\ UNCHANGED <<next, namespaces, classes, enums, files, pc, done, input, output, frame>>

Next ==
    \/ \E f \in 1..Len(Files) : ParseFile(f)
    \/ ParseReturn
    \/ \E cfg \in Configs : PostProcess(cfg)

Spec == Init /\ [][Next]_vars

(***************************************************************************)
(* Properties of parse() and post_process(), checked under Spec.           *)
(***************************************************************************)
\* the objects reachable from the tables of a ParsedDocData
objects_of(data) ==
    reachable(heap, dict_values(data.namespaces) \cup dict_values(data.classes)
                    \cup dict_values(data.enums) \cup dict_values(data.files))

\* the value of the i-th result with every reference moved to generation 0,
\* so that two results are equal exactly when they are structurally equal
structure_of(i) ==
    [data |-> deepcopy_data(results[i].data, 0),
     objects |-> [r \in {move(o, 0) : o \in objects_of(results[i].data)} |->
                     copy_entity(heap[<<i, r[2]>>], 0)]]

\* the copy made by run i shares no object with the original
NoSharedEntity ==
    \A i \in 1..Len(results) : \A o \in objects_of(results[i].data) : o[1] = i

\* runs with the same callbacks return structurally equal results
SameConfigSameResult ==
    \A i, j \in 1..Len(results) :
        results[i].cfg = results[j].cfg => structure_of(i) = structure_of(j)

\* a step of post_process leaves every object of the parsed graph, and its
\* four tables, as they were
OriginalUnchanged ==
    pc = "parsed" =>
        /\ \A r \in DOMAIN heap : r[1] = 0 => heap'[r] = heap[r]
        /\ parsed_data' = parsed_data

\* C1: post_process never mutates the parsed graph it is given; the copy it
\* returns shares no entity with the original; two runs with the same
\* callbacks over the same original return equal results.
C1_PostProcessLeavesOriginal ==
    /\ [](NoSharedEntity /\ SameConfigSameResult)
    /\ [][OriginalUnchanged]_vars

\* two runs with the same callbacks have returned, and the pass did rewrite
\* text: a class of the copy has a brief unlike the brief of its original
C1_Witness ==
    /\ Len(results) = 2
    /\ results[1].cfg = results[2].cfg
    /\ \E c \in dict_values(results[2].data.classes) :
          heap[c].brief # heap[<<0, c[2]>>].brief

\* how many times ClassDoc.post_process was called on c in run i
class_call_count(i, c) ==
    Cardinality({j \in 1..Len(results[i].class_calls) : results[i].class_calls[j] = c})

\* C2: after post_process returns, every ClassDoc of the returned copy that
\* is held in a namespace's classes map has been post-processed exactly once.
C2_EveryNamespaceClassProcessedOnce ==
    \A i \in 1..Len(results) :
        \A ns \in dict_values(results[i].data.namespaces) :
            \A c \in dict_values(heap[ns].classes) : class_call_count(i, c) = 1

\* the ClassDocs held anywhere in the parse result
held_classes ==
    dict_values(classes)
    \cup UNION {dict_values(heap[ns].classes) : ns \in dict_values(namespaces)}
    \cup UNION {dict_values(heap[f].classes) : f \in dict_values(files)}

\* C3: after parsing any sequence of files, for every ClassDoc C held in the
\* global classes table, a namespace's classes map or a file's classes map,
\* C.namespace.classes[C.name] is C itself, and every method or attribute
\* doc of C has class_doc = C.
C3_BackReferencesConsistent ==
    pc \in {"parse", "parsed"} =>
        \A c \in held_classes :
            /\ heap[c].name \in DOMAIN heap[heap[c].namespace].classes
            /\ heap[heap[c].namespace].classes[heap[c].name] = c
            /\ \A m \in seq_range(heap[c].public_methods) \cup seq_range(heap[c].public_attributes) :
                  heap[m].class_doc = c

(***************************************************************************)
(* The cross-reference resolver on its own: EntityDoc._update_text_block   *)
(* called inside post_process, on an element of the copy of the graph      *)
(* parsed from x/a.h and y/b.h, with a sentence of up to MaxWords words.   *)
(***************************************************************************)
MaxWords == 2

\* the words a sentence is made of: names that resolve in some scope, with
\* and without punctuation around them, names that resolve nowhere, and the
\* reference markers
Words ==
    { <<"F">>, <<"m">>, <<"n", ":", ":", "F">>, <<"G", ":", ":", "b", "(", ")">>,
      <<"(", "G", "#", "b", "(", ")", ",">>, <<"(", "a", ",">>, <<"z", "z", ".">>,
      <<"@", "r", "e", "f">>, <<"\\", "r", "e", "f">>, <<".", ".", ".">> }

Sentences == UNION {[1..k -> Words] : k \in 0..MaxWords}

\* the white space between two words of a sentence
Separators == {<<" ">>, <<"\n", " ">>}

RECURSIVE join_sep(_, _)
join_sep(words, sep) ==
    IF words = <<>> THEN <<>>
    ELSE IF Len(words) = 1 THEN words[1]
    ELSE words[1] \o sep \o join_sep(Tail(words), sep)

\* the kinds of element whose text post_process rewrites
ElementKinds == {"method", "attribute", "class", "namespace", "enum", "enumerator"}

\* the state inside post_process, after deepcopy(parsed_data)
InitResolve ==
    \E st \in {parse_one_file(parse_one_file(EmptyStore, FileA), FileB)} :
        /\ heap = deepcopy_heap(st.heap, [namespaces |-> st.namespaces, classes |-> st.classes,
                                          enums |-> st.enums, files |-> st.files], 1) @@ st.heap
        /\ next = st.next
        /\ namespaces = st.namespaces
        /\ classes = st.classes
        /\ enums = st.enums
        /\ files = st.files
        /\ pc = "post_process"
        /\ done = <<1, 2>>
        /\ results = <<>>
        /\ input = NoCall
        /\ output = NoCall
        /\ frame = NoFrame

\* self._update_text_block(text, namespace_docs, class_link), called once on
\* an element of the copy
UpdateTextBlock ==
    /\ pc = "post_process"
    /\ input.op = "none"
    /\ \E self \in {r \in DOMAIN heap : r[1] = 1 /\ heap[r].kind \in ElementKinds} :
       \E words \in Sentences, sep \in Separators, cfg \in Configs :
          /\ input' = [op |-> "update_text_block", self |-> self, words |-> words,
                       sep |-> sep, text |-> join_sep(words, sep), cfg |-> cfg]
          /\ output' = update_text_block(heap, self, join_sep(words, sep), namespaces, cfg)
    /\ UNCHANGED <<heap, next, namespaces, classes, enums, files, pc, done, results, frame>>

NextResolve == UpdateTextBlock

SpecResolve == InitResolve /\ [][NextResolve]_vars

(***************************************************************************)
(* Properties of the resolver, checked under SpecResolve.                  *)
(***************************************************************************)
Resolved == input.op = "update_text_block"

\* the words of the output: the output cut at every single space
RECURSIVE cut_from(_, _)
cut_from(s, word) ==
    IF s = <<>> THEN <<word>>
    ELSE IF Head(s) = " " THEN <<word>> \o cut_from(Tail(s), <<>>)
    ELSE cut_from(Tail(s), Append(word, Head(s)))

out_words == IF input.words = <<>> THEN <<>> ELSE cut_from(output.out, <<>>)

\* the i-th word of the input without the punctuation around it, and its
\* token path
token(i) == strip_word(input.words[i])
tokens(i) == re_split(token(i))

IsMarker(i) == token(i) \in RefMarkers

\* what the i-th word resolves to for the element, through the global
\* namespace table, and in the element's own scope
entity_of(i) == find_reference(heap, input.self, tokens(i), namespaces)

global_of(i) == EntityDoc_find_reference(heap, input.self, tokens(i), namespaces)

local_of(i) ==
    LET self == input.self
        first(a, b) == IF a # Null THEN a ELSE b
    IN  IF heap[self].kind = "method"
        THEN first(ClassDoc_find_token_reference(heap, heap[self].class_doc, tokens(i)),
                   NamespaceDoc_find_token_reference(heap, heap[heap[self].class_doc].namespace,
                                                     tokens(i)))
        ELSE IF heap[self].kind = "class"
        THEN first(NamespaceDoc_find_token_reference(heap, heap[self].namespace, tokens(i)),
                   class_member(heap, self, tokens(i)[1]))
        ELSE Null

IsMember(e) == e # Null /\ heap[e].kind \in {"class", "method", "attribute"}
IsLinked(e) == e # Null /\ heap[e].kind \in {"class", "method", "attribute", "namespace"}

\* the arguments of the link renderer for entity e and matched text w
link_call(e, w) ==
    IF heap[e].kind = "class" THEN <<w, heap[heap[e].namespace].name, heap[e].name, <<>> >>
    ELSE IF heap[e].kind = "namespace" THEN <<w, heap[e].name, <<>>, <<>> >>
    ELSE <<w, heap[heap[heap[e].class_doc].namespace].name, heap[heap[e].class_doc].name,
           heap[e].name>>

rendered(c) == class_link(input.cfg, c[1], c[2], c[3], c[4])

\* the matched text as the code hands it over
normalized(i) ==
    IF IsMember(entity_of(i)) THEN replace(token(i), <<"#">>, <<":", ":">>) ELSE token(i)

\* the i-th word was linked with the call c
LinkedWith(i, c) ==
    /\ \E j \in 1..Len(output.calls) : output.calls[j] = c
    /\ Len(out_words) = Len(input.words)
    /\ out_words[i] = replace(input.words[i], token(i), rendered(c))

HasBothScopes(i) ==
    /\ heap[input.self].kind \in {"method", "class"}
    /\ ~IsMarker(i)
    /\ IsLinked(local_of(i))
    /\ IsLinked(global_of(i))

Unqualified == \A i \in 1..Len(input.words) : Len(tokens(i)) = 1

\* C5: a word in an attribute's text is resolved against the attribute's
\* class and then that class's namespace, as for a method of the same class:
\* an unqualified name of a sibling member or of a class of the same
\* namespace gives the same link calls in the attribute's text as in the
\* method's.
C5_AttributeResolvesLikeMethod ==
    (Resolved /\ heap[input.self].kind = "attribute" /\ Unqualified) =>
        \A m \in seq_range(heap[heap[input.self].class_doc].public_methods) :
            output.calls = update_text_block(heap, m, input.text, namespaces, input.cfg).calls

\* how many words of the sentence are linked
linked_count == Cardinality({i \in 1..Len(input.words) : ~IsMarker(i) /\ IsLinked(entity_of(i))})

\* C6: for every word whose stripped token resolves to a class, method or
\* attribute, the link renderer is called once with the original matched
\* token text, the owning namespace's name, the class name and the member
\* name, and its return value replaces the token inside the word while the
\* punctuation around the token is kept.
C6_LinkCalledWithOriginalToken ==
    Resolved =>
        /\ Len(output.calls) = linked_count
        /\ \A i \in 1..Len(input.words) :
              (~IsMarker(i) /\ IsMember(entity_of(i))) =>
                  LinkedWith(i, link_call(entity_of(i), token(i)))

\* C6 as amended: the link renderer is called once with the matched token
\* text in which every # is replaced by ::, the owning namespace's name, the
\* class name and the member name (empty when the target is a class), and its
\* return value replaces the token inside the word while the punctuation
\* around the token is kept.
C6_LinkCalledWithNormalizedToken ==
    Resolved =>
        /\ Len(output.calls) = linked_count
        /\ \A i \in 1..Len(input.words) :
              (~IsMarker(i) /\ IsMember(entity_of(i))) =>
                  LinkedWith(i, link_call(entity_of(i),
                                          replace(token(i), <<"#">>, <<":", ":">>)))

\* a method's text holds (G#b(), and the call is ("G::b()", "n", "G", "b"),
\* with the parenthesis and the comma kept around the rendered link
C6_Witness ==
    /\ Resolved
    /\ heap[input.self].kind = "method"
    /\ \E i \in 1..Len(input.words) :
          /\ input.words[i] = <<"(", "G", "#", "b", "(", ")", ",">>
          /\ output.calls[1] = << <<"G", ":", ":", "b", "(", ")">>, <<"n">>, <<"G">>, <<"b">> >>
          /\ out_words[i] = <<"(">> \o rendered(output.calls[1]) \o <<",">>

\* C7: every word that is not a reference marker and whose token path
\* resolves in no scope appears in the output exactly as in the input, with
\* its punctuation, and no link-renderer call is made for it, for every kind
\* of element.
C7_UnresolvedWordUnchanged ==
    Resolved =>
        \A i \in 1..Len(input.words) :
            (~IsMarker(i) /\ entity_of(i) = Null) =>
                /\ Len(out_words) = Len(input.words)
                /\ out_words[i] = input.words[i]
                /\ \A j \in 1..Len(output.calls) :
                      output.calls[j][1] \notin {token(i), input.words[i],
                                                 replace(token(i), <<"#">>, <<":", ":">>)}

\* an enumerator's text holds a linked word and then an unresolved word
\* with punctuation, which is kept as written
C7_Witness ==
    /\ Resolved
    /\ heap[input.self].kind = "enumerator"
    /\ Len(input.words) = 2
    /\ IsLinked(entity_of(1))
    /\ ~IsMarker(2) /\ entity_of(2) = Null
    /\ token(2) # input.words[2]
    /\ out_words[2] = input.words[2]

\* the sentence without its marker words
RECURSIVE without_markers(_)
without_markers(words) ==
    IF words = <<>> THEN <<>>
    ELSE IF Head(words) \in RefMarkers THEN without_markers(Tail(words))
    ELSE <<Head(words)>> \o without_markers(Tail(words))

\* C8: a word equal to @ref or \ref is dropped with zero width: the output
\* for a text equals the output for the same text with the marker words
\* removed.
C8_MarkerDroppedZeroWidth ==
    Resolved =>
        output.out = update_text_block(heap, input.self,
                                       join_sep(without_markers(input.words), input.sep),
                                       namespaces, input.cfg).out

(***************************************************************************)
(* post_process of one element on its own, inside parse.post_process, on   *)
(* an element of the copy of the graph parsed from x/a.h and y/b.h whose   *)
(* doc blocks are a block of up to MaxElements elements, or absent.        *)
(***************************************************************************)
MaxElements == 2

ElementTypes == {"text", "code", "verbatim"}

\* "F x;", which holds the name of a class, and "see @ref n::F"
ElementTexts ==
    { <<"F", " ", "x", ";">>,
      <<"s", "e", "e", " ", "@", "r", "e", "f", " ", "n", ":", ":", "F">> }

DocElements == {DocElement(t, k) : t \in ElementTexts, k \in ElementTypes}

DocBlocks == {None} \cup {DocBlock(es) : es \in UNION {[1..k -> DocElements] : k \in 0..MaxElements}}

\* the element as parsed from a comment that gives it `block` as its brief
\* and, for a method, as its returns and as the description of its parameters
documented(h, self, block) ==
    [h EXCEPT ![self].brief = block,
              ![self].returns = IF h[self].kind = "method" THEN block ELSE @,
              ![self].params = IF block.some
                               THEN [i \in 1..Len(@) |-> [@[i] EXCEPT !.desc = block]]
                               ELSE @]

\* self.post_process(namespace_docs, cur_namespace, code_template, class_link),
\* called once on an element of the copy
PostProcessEntity ==
    /\ pc = "post_process"
    /\ input.op = "none"
    /\ \E self \in {r \in DOMAIN heap : r[1] = 1 /\ heap[r].kind \in ElementKinds} :
       \E block \in DocBlocks, cfg \in Configs :
          /\ input' = [op |-> "post_process", self |-> self, block |-> block, cfg |-> cfg]
          /\ heap' = entity_post_process(documented(heap, self, block), self, namespaces, cfg)
          /\ output' = heap'[self]
    /\ UNCHANGED <<next, namespaces, classes, enums, files, pc, done, results, frame>>

NextBlock == PostProcessEntity

SpecBlock == InitResolve /\ [][NextBlock]_vars

(***************************************************************************)
(* Properties of _update_doc_block, checked under SpecBlock.               *)
(***************************************************************************)
\* new is old post-processed for the element self: the same number of
\* elements with the same types in the same order, code and verbatim text
\* rendered as a code block, text resolved; an absent block stays absent
KeepsShape(old, new, self) ==
    IF ~old.some THEN new = None
    ELSE /\ new.some
         /\ Len(new.elements) = Len(old.elements)
         /\ \A i \in 1..Len(old.elements) :
               /\ new.elements[i].element_type = old.elements[i].element_type
               /\ old.elements[i].element_type \in {"code", "verbatim"} =>
                     new.elements[i].text = code_template(input.cfg, old.elements[i].text)
               /\ old.elements[i].element_type = "text" =>
                     new.elements[i].text =
                         join(modify_words(heap, self, split(old.elements[i].text),
                                           namespaces, input.cfg).words)

\* C9: post-processing a DocBlock keeps its shape: the same number of
\* elements, in the same order and with the same kinds; the text of a code or
\* verbatim element is exactly the rendered code block of the original text;
\* the text of a text element is the resolver's output; a block with zero
\* elements stays a block with zero elements and an absent block stays
\* absent.
C9_DocBlockKeepsShape ==
    input.op = "post_process" =>
        /\ KeepsShape(input.block, output.brief, input.self)
        /\ output.kind = "method" =>
              /\ KeepsShape(input.block, output.returns, input.self)
              /\ \A i \in 1..Len(output.params) :
                    input.block.some => KeepsShape(input.block, output.params[i].desc, input.self)

\* a method whose brief, returns and parameter description were a code
\* element and then a text element with the same text has been
\* post-processed: the code is rendered, the text is resolved
C9_Witness ==
    /\ input.op = "post_process"
    /\ output.kind = "method"
    /\ Len(output.params) > 0
    /\ input.block.some
    /\ Len(input.block.elements) = 2
    /\ input.block.elements[1].element_type = "code"
    /\ input.block.elements[2].element_type = "text"
    /\ input.block.elements[1].text = input.block.elements[2].text
    /\ output.brief.elements[1].text = code_template(input.cfg, input.block.elements[1].text)
    /\ output.brief.elements[2].text # input.block.elements[2].text
    /\ output.params[1].desc = output.brief

(***************************************************************************)
(* ClassDoc.inheritance_tree on its own, on the graph parsed from one file *)
(* that declares the classes R, A, B and C in namespace n, each with up to *)
(* MaxBases bases among the classes declared before it and a class X that  *)
(* the namespace does not hold.                                            *)
(***************************************************************************)
MaxBases == 2

ClassNames == << <<"R">>, <<"A">>, <<"B">>, <<"C">> >>

External == <<"X">>

\* the lists of at most MaxBases different names that class number k may
\* give as its bases
BaseLists(k) ==
    {bs \in UNION {[1..n -> {ClassNames[j] : j \in 1..(k - 1)} \cup {External}] :
                      n \in 0..MaxBases} :
        \A i, j \in 1..Len(bs) : bs[i] = bs[j] => i = j}

\* i.h: namespace n with the first classes of ClassNames, bases[k] the bases
\* of class k
InheritanceFile(bases) ==
    [path |-> <<"i", ".", "h">>, parsable |-> TRUE,
     namespaces |-> <<
       [name |-> <<"n">>, doxygen |-> NoDoxygen,
        classes |-> [k \in 1..Len(bases) |->
                       [name |-> ClassNames[k], anonymous |-> FALSE, doxygen |-> NoDoxygen,
                        methods |-> <<>>, fields |-> <<>>, enums |-> <<>>,
                        bases |-> bases[k]]],
        enums |-> <<>>]>>]

\* the state after parse() of i.h
InitInheritance ==
    \E b1 \in BaseLists(1), b2 \in BaseLists(2), b3 \in BaseLists(3), b4 \in BaseLists(4) :
        \E st \in {parse_one_file(EmptyStore, InheritanceFile(<<b1, b2, b3, b4>>))} :
            /\ heap = st.heap
            /\ next = st.next
            /\ namespaces = st.namespaces
            /\ classes = st.classes
            /\ enums = st.enums
            /\ files = st.files
            /\ pc = "parsed"
            /\ done = <<>>
            /\ results = <<>>
            /\ input = NoCall
            /\ output = NoCall
            /\ frame = NoFrame

\* the first read of self.inheritance_tree
InheritanceTree ==
    /\ pc = "parsed"
    /\ input.op = "none"
    /\ \E self \in dict_values(classes) :
          /\ input' = [op |-> "inheritance_tree", self |-> self]
          /\ output' = inheritance_tree(heap, self)
    /\ UNCHANGED <<heap, next, namespaces, classes, enums, files, pc, done, results, frame>>

NextInheritance == InheritanceTree

SpecInheritance == InitInheritance /\ [][NextInheritance]_vars

(***************************************************************************)
(* Properties of inheritance_tree, checked under SpecInheritance.          *)
(***************************************************************************)
\* the class that the name base denotes in the namespace of class c
base_of(c, base) == heap[heap[c].namespace].classes[base]

\* depth-first preorder from class c over the bases that the namespace of c
\* holds, in declaration order, skipping the classes already in `visited`
RECURSIVE preorder(_, _)
RECURSIVE preorder_bases(_, _, _)
preorder_bases(c, bases, visited) ==
    IF bases = <<>> THEN visited
    ELSE IF Head(bases) \notin DOMAIN heap[heap[c].namespace].classes
         THEN preorder_bases(c, Tail(bases), visited)
    ELSE preorder_bases(c, Tail(bases), preorder(base_of(c, Head(bases)), visited))

preorder(c, visited) ==
    IF \E i \in 1..Len(visited) : visited[i] = c THEN visited
    ELSE preorder_bases(c, heap[c].base_classes, Append(visited, c))

names_of(tree) == [i \in 1..Len(tree) |-> heap[tree[i]].name]

\* C10: for every acyclic base-class graph, inheritance_tree(c) is the
\* depth-first preorder over the bases that resolve in c's own namespace,
\* taken in declaration order: c first, each class exactly once at its first
\* visit even when reachable by several paths, and base names absent from the
\* namespace's class map skipped.
C10_InheritanceTreeIsPreorder ==
    input.op = "inheritance_tree" =>
        /\ ~output.raised
        /\ output.tree = preorder(input.self, <<>>)
        /\ output.tree[1] = input.self
        /\ \A i, j \in 1..Len(output.tree) : output.tree[i] = output.tree[j] => i = j

\* C has bases [A, B], A has base [R] and B has bases [X, R], with X not in
\* the namespace: R is reachable by two paths, and the tree of C is
\* [C, A, R, B]
C10_Witness ==
    /\ input.op = "inheritance_tree"
    /\ heap[input.self].name = <<"C">>
    /\ heap[input.self].base_classes = << <<"A">>, <<"B">> >>
    /\ heap[base_of(input.self, <<"A">>)].base_classes = << <<"R">> >>
    /\ heap[base_of(input.self, <<"B">>)].base_classes = << <<"X">>, <<"R">> >>
    /\ names_of(output.tree) = << <<"C">>, <<"A">>, <<"R">>, <<"B">> >>

(***************************************************************************)
(* ClassDoc.inheritance_tree on any base-class graph: i.h declares the     *)
(* classes R, A and B, each with up to MaxBases bases among the three.     *)
(***************************************************************************)
\* the lists of at most MaxBases different names among the first n classes
AnyBaseLists(n) ==
    {bs \in UNION {[1..k -> {ClassNames[j] : j \in 1..n}] : k \in 0..MaxBases} :
        \A i, j \in 1..Len(bs) : bs[i] = bs[j] => i = j}

InitInheritanceAny ==
    \E b1 \in AnyBaseLists(3), b2 \in AnyBaseLists(3), b3 \in AnyBaseLists(3) :
        \E st \in {parse_one_file(EmptyStore, InheritanceFile(<<b1, b2, b3>>))} :
            /\ heap = st.heap
            /\ next = st.next
            /\ namespaces = st.namespaces
            /\ classes = st.classes
            /\ enums = st.enums
            /\ files = st.files
            /\ pc = "parsed"
            /\ done = <<>>
            /\ results = <<>>
            /\ input = NoCall
            /\ output = NoCall
            /\ frame = NoFrame

SpecInheritanceAny == InitInheritanceAny /\ [][NextInheritance]_vars

\* C11: inheritance_tree terminates and returns a finite duplicate-free list
\* for every base-class graph, including those with a cycle (A derives from B
\* and B from A) or with a class naming itself as base.
C11_InheritanceTreeReturns ==
    input.op = "inheritance_tree" =>
        /\ ~output.raised
        /\ \A i, j \in 1..Len(output.tree) : output.tree[i] = output.tree[j] => i = j

(***************************************************************************)
(* process_lines on the lines of one comment, line by line: the Segmenter  *)
(* runs when the call starts, then the Grouper reads one logical line per  *)
(* step.                                                                   *)
(***************************************************************************)
MaxLines == 4

\* a line of a comment written with ///
doc_line(content) == <<"/", "/", "/", " ">> \o content

RawLines ==
    { doc_line(<<"@">> \o kw_param \o <<" ", "x", " ", "a">>),
      doc_line(<<"@">> \o kw_brief \o <<" ", "b">>),
      doc_line(<<"@">> \o kw_brief),
      doc_line(<<"t">>),
      <<"/", "/", "/">>,
      doc_line(<<"-", " ", "i">>),
      doc_line(<<"@">> \o str_code),
      doc_line(<<"@">> \o str_end \o str_code),
      doc_line(<<"\\">> \o str_verbatim),
      doc_line(<<"\\">> \o str_end \o str_verbatim) }

RECURSIVE Comments(_)
Comments(n) ==
    IF n = 0 THEN {<<>>}
    ELSE Comments(n - 1) \cup {Append(c, l) : c \in {d \in Comments(n - 1) : Len(d) = n - 1}, l \in RawLines}

\* process_lines(lines): lines = _preprocess_lines(lines), and the locals of
\* the loop before the first logical line
CallProcessLines ==
    /\ frame.pc = "idle"
    /\ \E raw \in Comments(MaxLines) :
           frame' = [pc |-> "loop", raw |-> raw, lines |-> preprocess_lines(raw), i |-> 0,
                     g |-> GrouperStart, result |-> <<>>]
    /\ UNCHANGED <<heap, next, namespaces, classes, enums, files, pc, done, results, input, output>>

\* one iteration of `for line in lines`
GroupLine ==
    /\ frame.pc = "loop"
    /\ frame.i < Len(frame.lines)
    /\ frame' = [frame EXCEPT !.i = @ + 1, !.g = group_line(@, frame.lines[frame.i + 1])]
    /\ UNCHANGED <<heap, next, namespaces, classes, enums, files, pc, done, results, input, output>>

\* the statements after the loop
ReturnCommands ==
    /\ frame.pc = "loop"
    /\ frame.i = Len(frame.lines)
    /\ frame' = [frame EXCEPT !.pc = "returned", !.result = group_return(frame.g)]
    /\ UNCHANGED <<heap, next, namespaces, classes, enums, files, pc, done, results, input, output>>

NextLines == CallProcessLines \/ GroupLine \/ ReturnCommands

SpecLines == Init /\ [][NextLines]_vars

\* the keywords that do not start a command
ContentKeywords == {<<>>, str_blank, str_verbatim, str_code, str_li}

\* the logical lines that start a command, as keyword and rest_of_line
RECURSIVE tag_lines(_)
tag_lines(lines) ==
    IF lines = <<>> THEN <<>>
    ELSE (IF get_keyword_and_rest_of_line(Head(lines)).keyword \in ContentKeywords THEN <<>>
          ELSE <<get_keyword_and_rest_of_line(Head(lines))>>)
         \o tag_lines(Tail(lines))

RECURSIVE named(_, _)
named(commands, name) ==
    IF commands = <<>> THEN <<>>
    ELSE (IF Head(commands).name = name THEN <<Head(commands)>> ELSE <<>>)
         \o named(Tail(commands), name)

RECURSIVE tagged(_, _)
tagged(tags, keyword) ==
    IF tags = <<>> THEN <<>>
    ELSE (IF Head(tags).keyword = keyword THEN <<Head(tags)>> ELSE <<>>)
         \o tagged(Tail(tags), keyword)

\* command was started by the logical line tag
StartedBy(command, tag) ==
    tag.rest_of_line # <<>> =>
        /\ command.doc.elements # <<>>
        /\ command.doc.elements[1] = DocElement(tag.rest_of_line, "text")

\* C12: when process_lines has returned, for every keyword the CommandDocs of
\* that name in the output are as many as the logical lines that start a
\* command with that keyword, and the k-th of them was started by the k-th
\* such line: none merged, none dropped, equal ones included.
C12_EveryTaggedCommandKept ==
    frame.pc = "returned" =>
        \A tag \in {tag_lines(frame.lines)[k] : k \in 1..Len(tag_lines(frame.lines))} :
            LET same(cs, ts) ==
                    /\ Len(cs) = Len(ts)
                    /\ \A k \in 1..Len(cs) : k <= Len(ts) => StartedBy(cs[k], ts[k])
            IN  same(named(frame.result, tag.keyword), tagged(tag_lines(frame.lines), tag.keyword))

\* the keyword of the logical line read by the k-th iteration
keyword_at(k) == get_keyword_and_rest_of_line(frame.lines[k]).keyword

\* the iteration of the loop that reads logical line k
ReadsLine(k) == frame.pc = "loop" /\ frame.i = k - 1 /\ frame'.pc = "loop" /\ frame'.i = k

\* the element a content line becomes
element_of(line) ==
    LET element(kr) ==
            DocElement(kr.rest_of_line,
                       IF kr.keyword = str_code THEN "code"
                       ELSE IF kr.keyword = str_verbatim THEN "verbatim" ELSE "text")
    IN  element(get_keyword_and_rest_of_line(line))

\* C13: an iteration of the Grouper that reads a code, verbatim or li line
\* appends one element of type code, verbatim or text to the command that
\* was current and to no other, and leaves it current; one that reads an
\* untagged line appends one text element to the anonymous command and to
\* no other, and makes the anonymous command current.  No command is made.
C13_ContentLineAttachesOnce ==
    [][\A k \in 1..MaxLines + 1 :
          (ReadsLine(k) /\ keyword_at(k) \in {<<>>, str_code, str_verbatim, str_li}) =>
              LET target == IF keyword_at(k) = <<>> THEN 1 ELSE frame.g.cur_command
              IN  /\ frame'.g.cur_command = target
                  /\ Len(frame'.g.objs) = Len(frame.g.objs)
                  /\ \A c \in 1..Len(frame.g.objs) :
                         frame'.g.objs[c] =
                             IF c = target
                             THEN [frame.g.objs[c] EXCEPT
                                      !.elements = Append(@, element_of(frame.lines[k]))]
                             ELSE frame.g.objs[c]]_vars

\* a code line was read while a named command was current, then an untagged
\* line: the code is the last element of the named command, the text is an
\* element of the anonymous command, which is current
C13_Witness ==
    /\ frame.pc = "loop"
    /\ frame.i = 3
    /\ keyword_at(1) \notin ContentKeywords
    /\ keyword_at(2) = str_code
    /\ keyword_at(3) = <<>>
    /\ frame.g.cur_command = 1
    /\ frame.g.objs[1].elements = <<element_of(frame.lines[3])>>
    /\ frame.g.objs[2].elements[Len(frame.g.objs[2].elements)] = element_of(frame.lines[2])

\* the locals of the loop when it has read the first k logical lines
locals_after(k) == group_from(GrouperStart, SubSeq(frame.lines, 1, k))

\* the CommandDoc object c is in the returned list
emitted(c) ==
    /\ \E j \in 1..Len(frame.g.commands) : frame.g.commands[j] = c
    /\ frame.g.objs[c].name # <<>> \/ frame.g.objs[c].elements # <<>>

\* C14: when process_lines has returned, every @blank line it read changed no
\* command and made the anonymous command current, and the named command
\* that was current before it is in the output; in the output only the
\* first command can be the anonymous one, and the named commands are in the
\* order of their tag lines.
C14_BlankResetsToAnonymous ==
    frame.pc = "returned" =>
        /\ \A k \in 1..Len(frame.lines) :
               keyword_at(k) = str_blank =>
                   /\ locals_after(k).objs = locals_after(k - 1).objs
                   /\ locals_after(k).cur_command = 1
                   /\ locals_after(k - 1).cur_command # 1 =>
                          emitted(locals_after(k - 1).cur_command)
        /\ \A j \in 1..Len(frame.result) : frame.result[j].name = <<>> => j = 1
        /\ \A j \in 2..Len(frame.g.commands) : frame.g.commands[j - 1] < frame.g.commands[j]

(***************************************************************************)
(* The extractors on one declaration each, whose comment goes through      *)
(* process_lines: NamespaceDoc.parse, ClassDoc.parse and EnumDoc.parse on  *)
(* a declaration named n without members, MethodDoc.parse on a method      *)
(* with the parameters x and y.                                            *)
(***************************************************************************)
DeclName == <<"n">>

\* the lines of a comment that carry the name guard `keyword`
GuardLines(keyword) ==
    { doc_line(<<"@">> \o keyword),
      doc_line(<<"@">> \o keyword \o <<" ", "n">>),
      doc_line(<<"@">> \o keyword \o <<" ", "n", " ", "d">>),
      doc_line(<<"@">> \o keyword \o <<" ", "m", " ", "d">>),
      doc_line(<<"t">>),
      <<"/", "/", "/">>,
      doc_line(<<"@">> \o str_code \o <<" ", "c">>),
      doc_line(<<"@">> \o kw_brief \o <<" ", "b">>) }

RECURSIVE CommentsOf(_, _)
CommentsOf(lines, n) ==
    IF n = 0 THEN {<<>>}
    ELSE CommentsOf(lines, n - 1)
         \cup {Append(c, l) : c \in {d \in CommentsOf(lines, n - 1) : Len(d) = n - 1}, l \in lines}

\* a declaration's doxygen, from the lines of its comment: `if doxygen`
\* fails for a comment without lines
doxygen_of(raw) == IF raw = <<>> THEN NoDoxygen ELSE Doxygen(process_lines(raw))

ExtractNamespace ==
    /\ pc = "parse"
    /\ input.op = "none"
    /\ \E raw \in CommentsOf(GuardLines(kw_namespace), MaxLines) :
           /\ input' = [op |-> "NamespaceDoc.parse", name |-> DeclName, raw |-> raw,
                        doxygen |-> doxygen_of(raw)]
           /\ output' = NamespaceDoc_parse([name |-> DeclName, doxygen |-> doxygen_of(raw),
                                            classes |-> <<>>, enums |-> <<>>])
    /\ UNCHANGED <<heap, next, namespaces, classes, enums, files, pc, done, results, frame>>

\* what an extractor that allocates returned: the entity, None or an exception
extracted(r) ==
    IF r.status = "ok" THEN [status |-> "ok", entity |-> r.st.heap[r.ref]]
    ELSE [status |-> r.status]

ExtractClass ==
    /\ pc = "parse"
    /\ input.op = "none"
    /\ \E raw \in CommentsOf(GuardLines(kw_class), MaxLines) :
           /\ input' = [op |-> "ClassDoc.parse", name |-> DeclName, raw |-> raw,
                        doxygen |-> doxygen_of(raw)]
           /\ output' = extracted(ClassDoc_parse(EmptyStore,
                             [name |-> DeclName, anonymous |-> FALSE, doxygen |-> doxygen_of(raw),
                              methods |-> <<>>, fields |-> <<>>, enums |-> <<>>, bases |-> <<>>],
                             Null))
    /\ UNCHANGED <<heap, next, namespaces, classes, enums, files, pc, done, results, frame>>

ExtractEnum ==
    /\ pc = "parse"
    /\ input.op = "none"
    /\ \E raw \in CommentsOf(GuardLines(kw_enum), MaxLines) :
           /\ input' = [op |-> "EnumDoc.parse", name |-> DeclName, raw |-> raw,
                        doxygen |-> doxygen_of(raw)]
           /\ output' = extracted(EnumDoc_parse(EmptyStore,
                             [name |-> DeclName, doxygen |-> doxygen_of(raw), access |-> "public",
                              values |-> <<>>]))
    /\ UNCHANGED <<heap, next, namespaces, classes, enums, files, pc, done, results, frame>>

MaxParamLines == 3

\* the declared parameters of the method: int x, T y
DeclParams == <<[name |-> <<"x">>, type |-> <<"i", "n", "t">>], [name |-> <<"y">>, type |-> <<"T">>]>>

\* the lines of the comment of a method
MethodLines ==
    { doc_line(<<"@">> \o kw_param \o <<" ", "x", " ", "d">>),
      doc_line(<<"@">> \o kw_param \o <<"[", "i", "n", "]", " ", "x", " ", "d">>),
      doc_line(<<"@">> \o kw_param \o <<"[", "o", "u", "t", "]", " ", "y", " ", "d">>),
      doc_line(<<"@">> \o kw_param \o <<"[", "i", "n", "o", "u", "t", "]", " ", "y", " ", "e">>),
      doc_line(<<"@">> \o kw_param),
      doc_line(<<"@">> \o kw_param \o <<" ", "z", " ", "d">>),
      doc_line(<<"@">> \o kw_param \o <<"[", "i", "o", "]", " ", "x", " ", "d">>),
      doc_line(<<"@">> \o kw_param \o <<" ", "x">>),
      doc_line(<<"@">> \o kw_return \o <<" ", "r">>),
      doc_line(<<"@">> \o kw_returns \o <<" ", "s">>),
      doc_line(<<"@">> \o kw_brief \o <<" ", "b">>),
      doc_line(<<"@">> \o kw_brief \o <<" ", "c">>),
      doc_line(<<"@">> \o kw_todo \o <<" ", "u">>),
      doc_line(<<"@">> \o kw_deprecated),
      doc_line(<<"t">>),
      <<"/", "/", "/">>,
      doc_line(<<"@">> \o str_code \o <<" ", "c">>) }

\* MethodDoc.parse_param on one of the commands of a method's comment
ParseParam ==
    /\ pc = "parse"
    /\ input.op = "none"
    /\ \E raw \in CommentsOf(MethodLines, MaxParamLines) :
           \E k \in 1..Len(commands_of(doxygen_of(raw))) :
               /\ startswith(commands_of(doxygen_of(raw))[k].name, kw_param)
               /\ input' = [op |-> "MethodDoc.parse_param", raw |-> raw,
                            param_doc |-> commands_of(doxygen_of(raw))[k], params |-> DeclParams]
               /\ output' = parse_param(commands_of(doxygen_of(raw))[k], DeclParams)
    /\ UNCHANGED <<heap, next, namespaces, classes, enums, files, pc, done, results, frame>>

ExtractMethod ==
    /\ pc = "parse"
    /\ input.op = "none"
    /\ \E raw \in CommentsOf(MethodLines, MaxParamLines) :
           /\ input' = [op |-> "MethodDoc.parse", name |-> DeclName, raw |-> raw,
                        doxygen |-> doxygen_of(raw)]
           /\ output' = MethodDoc_parse([name |-> DeclName, doxygen |-> doxygen_of(raw),
                                         access |-> "public", parameters |-> DeclParams])
    /\ UNCHANGED <<heap, next, namespaces, classes, enums, files, pc, done, results, frame>>

NextExtract == ExtractNamespace \/ ExtractClass \/ ExtractEnum \/ ParseParam \/ ExtractMethod

SpecExtract == Init /\ [][NextExtract]_vars

\* the first token of a text: what precedes its first space
first_token(s) == IF first_space(s, 1) = 0 THEN s ELSE SubSeq(s, 1, first_space(s, 1) - 1)

\* what follows the first token and its space
remainder(s) == SubSeq(s, first_space(s, 1) + 1, Len(s))

\* the commands of the comment named `name`
input_commands(name) == named(commands_of(input.doxygen), name)

\* the first command of that name has no content or names another entity
GuardFails(name) ==
    /\ input_commands(name) # <<>>
    /\ \/ input_commands(name)[1].doc.elements = <<>>
       \/ first_token(input_commands(name)[1].doc.elements[1].text) # input.name

\* C15: NamespaceDoc.parse never raises; it returns None exactly when the
\* comment has a @namespace command and the first one has no content or a
\* first token other than the declaration's name; otherwise it returns an
\* entity with the declaration's name.
C15_NamespaceGuard ==
    input.op = "NamespaceDoc.parse" =>
        /\ output.status \in {"ok", "none"}
        /\ output.status = "none" <=> GuardFails(kw_namespace)
        /\ output.status = "ok" => output.entity.name = input.name

\* a comment with text and a @namespace command that names another entity
C15_Witness ==
    /\ input.op = "NamespaceDoc.parse"
    /\ first_doc(commands_of(input.doxygen), {kw_anonymous}).some
    /\ input_commands(kw_namespace) # <<>>
    /\ input_commands(kw_namespace)[1].doc.elements # <<>>
    /\ first_token(input_commands(kw_namespace)[1].doc.elements[1].text) = <<"m">>
    /\ output.status = "none"

\* the keyword of the name guard of the extractor that was called
guard_keyword ==
    IF input.op = "NamespaceDoc.parse" THEN kw_namespace
    ELSE IF input.op = "ClassDoc.parse" THEN kw_class ELSE kw_enum

\* the first guard command names the declaration and text follows the name
GuardHasRemainder ==
    /\ input_commands(guard_keyword) # <<>>
    /\ input_commands(guard_keyword)[1].doc.elements # <<>>
    /\ input_commands(guard_keyword)[1].doc.elements[1].element_type = "text"
    /\ first_token(input_commands(guard_keyword)[1].doc.elements[1].text) = input.name
    /\ first_space(input_commands(guard_keyword)[1].doc.elements[1].text, 1) # 0

\* the elements of the anonymous description of the comment
anonymous_elements ==
    IF first_doc(commands_of(input.doxygen), {kw_anonymous}).some
    THEN first_doc(commands_of(input.doxygen), {kw_anonymous}).elements
    ELSE <<>>

\* C16: when NamespaceDoc.parse, ClassDoc.parse or EnumDoc.parse has read a
\* comment whose first guard command names the declaration with text after
\* the name, it returns an entity whose desc is one text element holding
\* that remainder, followed by the elements of the anonymous description.
C16_RemainderPrependedToDesc ==
    (input.op \in {"NamespaceDoc.parse", "ClassDoc.parse", "EnumDoc.parse"} /\ GuardHasRemainder) =>
        /\ output.status = "ok"
        /\ output.entity.desc =
               DocBlock(<<DocElement(remainder(input_commands(guard_keyword)[1].doc.elements[1].text),
                                     "text")>>
                        \o anonymous_elements)

\* C17: when ClassDoc.parse or EnumDoc.parse has read a comment with a @class
\* or @enum command that has no content, it has returned an entity or None:
\* no exception has left it.
C17_EmptyGuardNeverRaises ==
    (/\ input.op \in {"ClassDoc.parse", "EnumDoc.parse"}
     /\ \E k \in 1..Len(input_commands(guard_keyword)) :
            input_commands(guard_keyword)[k].doc.elements = <<>>) =>
        output.status \in {"ok", "none"}

\* the tags of a param command and the direction each stands for
DirectionOfTag ==
    [tag \in {kw_param, kw_param \o <<"[", "i", "n", "]">>, kw_param \o <<"[", "o", "u", "t", "]">>,
              kw_param \o <<"[", "i", "n", "o", "u", "t", "]">>} |->
        IF tag = kw_param \o <<"[", "o", "u", "t", "]">> THEN "out"
        ELSE IF tag = kw_param \o <<"[", "i", "n", "o", "u", "t", "]">> THEN "in,out"
        ELSE "in"]

\* the declared parameters called `name`
declared(params, name) == {i \in 1..Len(params) : params[i].name = name}

\* the command starts with the text `<name> <description>`, <name> declared
Associable(param_doc, params) ==
    /\ param_doc.name \in DOMAIN DirectionOfTag
    /\ param_doc.doc.elements # <<>>
    /\ param_doc.doc.elements[1].element_type = "text"
    /\ first_space(param_doc.doc.elements[1].text, 1) # 0
    /\ declared(params, first_token(param_doc.doc.elements[1].text)) # {}

\* the Param the claim describes for an associable command
param_of(param_doc, params) ==
    [name |-> first_token(param_doc.doc.elements[1].text),
     param_type |-> params[CHOOSE i \in declared(params, first_token(param_doc.doc.elements[1].text)) :
                               TRUE].type,
     direction |-> DirectionOfTag[param_doc.name],
     desc |-> DocBlock(<<DocElement(remainder(param_doc.doc.elements[1].text), "text")>>
                       \o Tail(param_doc.doc.elements))]

\* C18: parse_param on a command tagged param, param[in], param[out] or
\* param[inout] whose first element is the text `<name> <description>`, with
\* <name> a declared parameter, returns one Param: that name, the type of the
\* declared parameter, the direction of the tag (in, in, out, in-out), and
\* as desc the text <description> followed by the command's other elements.
C18_ParamFromCommand ==
    (input.op = "MethodDoc.parse_param" /\ Associable(input.param_doc, input.params)) =>
        /\ output.status = "ok"
        /\ output.param = param_of(input.param_doc, input.params)

\* a param[inout] command for y with a code element after its first line
C18_Witness ==
    /\ input.op = "MethodDoc.parse_param"
    /\ Associable(input.param_doc, input.params)
    /\ input.param_doc.name = kw_param \o <<"[", "i", "n", "o", "u", "t", "]">>
    /\ Len(input.param_doc.doc.elements) = 2
    /\ output.status = "ok"
    /\ output.param.direction = "in,out"
    /\ output.param.param_type = <<"T">>
    /\ Len(output.param.desc.elements) = 2

\* the Params of the associable commands, in the order of the commands
RECURSIVE associated(_, _)
associated(commands, params) ==
    IF commands = <<>> THEN <<>>
    ELSE (IF Associable(Head(commands), params) THEN <<param_of(Head(commands), params)>>
          ELSE <<>>)
         \o associated(Tail(commands), params)

\* C19: MethodDoc.parse raises no exception and returns a MethodDoc whose
\* params are those of the associable param commands, in order: a param
\* command without content, with a name that is not declared or with a tag
\* outside the direction pattern gives no Param and nothing else.
C19_UnassociableParamDropped ==
    input.op = "MethodDoc.parse" =>
        /\ output.status = "ok"
        /\ output.entity.params = associated(commands_of(input.doxygen), DeclParams)

\* the logical lines of the comment that was read
input_lines == preprocess_lines(input.raw)

\* the tag lines of the comment whose keyword is one of `names`
RECURSIVE tagged_any(_, _)
tagged_any(tags, names) ==
    IF tags = <<>> THEN <<>>
    ELSE (IF Head(tags).keyword \in names THEN <<Head(tags)>> ELSE <<>>)
         \o tagged_any(Tail(tags), names)

\* the commands of the comment whose name is one of `names`
RECURSIVE named_any(_, _)
named_any(commands, names) ==
    IF commands = <<>> THEN <<>>
    ELSE (IF Head(commands).name \in names THEN <<Head(commands)>> ELSE <<>>)
         \o named_any(Tail(commands), names)

\* block is the block of the first command of the comment with one of the
\* names, which the first tag line with one of them started; it is None
\* when the comment has no such tag line
FirstBlock(block, names) ==
    IF tagged_any(tag_lines(input_lines), names) = <<>> THEN block = None
    ELSE /\ block.some
         /\ block = named_any(commands_of(input.doxygen), names)[1].doc
         /\ StartedBy([doc |-> block], tagged_any(tag_lines(input_lines), names)[1])

C21_NamespaceCoalesced ==
    pc \in {"parse", "parsed"} =>
        \A f \in dict_values(files) :
            /\ \A name \in DOMAIN heap[f].namespaces :
                   /\ name \in DOMAIN namespaces
                   /\ heap[f].namespaces[name] = namespaces[name]
                   /\ heap[namespaces[name]].name = name
            /\ \A c \in dict_values(heap[f].classes) :
                   /\ heap[c].namespace \in dict_values(heap[f].namespaces)
                   /\ c \in dict_values(heap[heap[c].namespace].classes)
            /\ \A e \in dict_values(heap[f].enums) :
                   \E ns \in dict_values(heap[f].namespaces) : e \in dict_values(heap[ns].enums)

(***************************************************************************)
(* _remove_comment_chars_from_line on one decorated line: the decoration   *)
(* around a content of up to MaxContent characters.                        *)
(***************************************************************************)
MaxContent == 3

\* the decorations of a comment line: what opens it and what closes it
Decorations ==
    { [open |-> <<"/", "/", "/">>, close |-> <<>>],
      [open |-> <<"/", "/", "!", "<">>, close |-> <<>>],
      [open |-> <<"/", "/", "/", "<">>, close |-> <<>>],
      [open |-> <<"/", "*", "*">>, close |-> <<"*", "/">>],
      [open |-> <<"/", "*", "!">>, close |-> <<"*", "/">>] }

ContentChars == {"a", " ", "*", "/"}

RECURSIVE Contents(_)
Contents(n) ==
    IF n = 0 THEN {<<>>}
    ELSE Contents(n - 1)
         \cup {Append(c, ch) : c \in {d \in Contents(n - 1) : Len(d) = n - 1}, ch \in ContentChars}

RemoveCommentChars ==
    /\ pc = "parse"
    /\ input.op = "none"
    /\ \E decoration \in Decorations, content \in Contents(MaxContent) :
           /\ input' = [op |-> "_remove_comment_chars_from_line", decoration |-> decoration,
                        content |-> content,
                        line |-> decoration.open \o content \o decoration.close]
           /\ output' = remove_comment_chars_from_line(decoration.open \o content \o decoration.close)
    /\ UNCHANGED <<heap, next, namespaces, classes, enums, files, pc, done, results, frame>>

NextStrip == RemoveCommentChars

SpecStrip == Init /\ [][NextStrip]_vars

\* C22: for a decorated line whose content neither starts nor ends with `*`,
\* _remove_comment_chars_from_line returns the content, character for
\* character, up to the whitespace around it.
C22_StripKeepsContent ==
    (/\ input.op = "_remove_comment_chars_from_line"
     /\ ~startswith(strip(input.content), <<"*">>)
     /\ ~endswith(strip(input.content), <<"*">>)) =>
        strip(output) = strip(input.content)

(***************************************************************************)
(* _preprocess_lines on the lines of one comment, one iteration of its     *)
(* loop per step. frame holds the call's locals: the lines given, the      *)
(* number of lines read and the loop's variables.                          *)
(***************************************************************************)
MaxSegmentLines == 3

SegmentLines ==
    { doc_line(<<"@">> \o str_verbatim),
      <<" ", " ", "\\">> \o str_verbatim,
      doc_line(<<"a", "@">> \o str_end \o str_verbatim \o <<" ", "b">>),
      doc_line(<<"\\">> \o str_end \o str_verbatim),
      doc_line(<<"@">> \o str_code),
      doc_line(<<"@">> \o str_code \o <<"{", "c", "}">>),
      doc_line(<<"b", "@">> \o str_end \o str_code \o <<" ", "c">>),
      doc_line(<<"t">>),
      doc_line(<<" ", " ", "u">>),
      <<"/", "/", "/">>,
      doc_line(<<"-", " ", "i">>),
      doc_line(<<" ", " ", "*", " ", "j">>),
      doc_line(<<"@">> \o str_blank) }

RECURSIVE SegmentInputs(_)
SegmentInputs(n) ==
    IF n = 0 THEN {<<>>}
    ELSE SegmentInputs(n - 1)
         \cup {Append(c, l) : c \in {d \in SegmentInputs(n - 1) : Len(d) = n - 1}, l \in SegmentLines}

\* _preprocess_lines(lines): the locals before the loop
CallPreprocessLines ==
    /\ frame.pc = "idle"
    /\ \E raw \in SegmentInputs(MaxSegmentLines) :
           frame' = [pc |-> "segment", raw |-> raw, k |-> 0, pp |-> PreprocessStart, lines |-> <<>>]
    /\ UNCHANGED <<heap, next, namespaces, classes, enums, files, pc, done, results, input, output>>

\* one iteration of `for line in lines`
PreprocessLine ==
    /\ frame.pc = "segment"
    /\ frame.k < Len(frame.raw)
    /\ frame' = [frame EXCEPT !.k = @ + 1, !.pp = preprocess_line(@, frame.raw[frame.k + 1])]
    /\ UNCHANGED <<heap, next, namespaces, classes, enums, files, pc, done, results, input, output>>

\* the statements after the loop: `if cur_line: result.append(cur_line)`
\* and the return
PreprocessReturn ==
    /\ frame.pc = "segment"
    /\ frame.k = Len(frame.raw)
    /\ frame' = [frame EXCEPT !.pc = "segmented",
                              !.lines = IF frame.pp.cur_line # <<>>
                                        THEN Append(frame.pp.result, frame.pp.cur_line)
                                        ELSE frame.pp.result]
    /\ UNCHANGED <<heap, next, namespaces, classes, enums, files, pc, done, results, input, output>>

NextSegment == CallPreprocessLines \/ PreprocessLine \/ PreprocessReturn

SpecSegment == Init /\ [][NextSegment]_vars

\* the step reads the next line of the comment
ReadsRawLine == frame.pc = "segment" /\ frame'.pc = "segment" /\ frame'.k = frame.k + 1

\* the line the step reads, and what is left of it without its decoration
raw_line_read == frame.raw[frame.k + 1]

stripped_read == remove_comment_chars_from_line(raw_line_read)

fully_stripped_read == lstrip(stripped_read, Whitespace)

\* the line closes a region opened with the keyword
has_end_tag(line, keyword) == \E tag \in with_escape(str_end \o keyword) : contains(line, tag)

\* the text of a line before the tag that closes the region
before_end_tag(line, keyword) ==
    LET at(tag) == IF contains(line, tag) THEN find(line, tag) ELSE Len(line)
        first == CHOOSE n \in {at(tag) : tag \in with_escape(str_end \o keyword)} :
                     \A tag \in with_escape(str_end \o keyword) : n <= at(tag)
    IN  SubSeq(line, 1, first)

\* C23: the line that closes a verbatim region adds to the region the text
\* before the closing tag, without the positional prefix, and nothing else;
\* the region is then emitted as one logical line.
C23_TerminatorAddsTextBefore ==
    [][(/\ ReadsRawLine
        /\ frame.pp.block_type = "verbatim"
        /\ has_end_tag(raw_line_read, str_verbatim)) =>
           /\ frame'.pp.block_type = "None"
           /\ frame'.pp.result =
                  Append(frame.pp.result,
                         IF slice_from(before_end_tag(raw_line_read, str_verbatim), frame.pp.chars) # <<>>
                         THEN frame.pp.cur_line \o <<"\n">>
                              \o slice_from(before_end_tag(raw_line_read, str_verbatim), frame.pp.chars)
                         ELSE frame.pp.cur_line)]_vars

\* the step reads a blank line outside a verbatim or code region
ReadsBlankLine ==
    /\ ReadsRawLine
    /\ frame.pp.block_type \notin {"verbatim", "code"}
    /\ fully_stripped_read = <<>>

\* the logical lines emitted once the accumulation that is open, if any, is
\* closed
result_closed ==
    IF frame.pp.block_type \in {"other", "list"}
    THEN Append(frame.pp.result, frame.pp.cur_line)
    ELSE frame.pp.result

\* a blank line emits @blank exactly when a logical line has been emitted
BlankIffEmitted ==
    ReadsBlankLine =>
        frame'.pp.result = IF result_closed # <<>>
                           THEN Append(result_closed, <<"@">> \o str_blank)
                           ELSE result_closed

\* the call returns
SegmenterReturns == frame.pc = "segment" /\ frame'.pc = "segmented"

\* an input of blank lines only gives no logical line
OnlyBlankGivesNothing ==
    (/\ SegmenterReturns
     /\ \A i \in 1..Len(frame.raw) :
            lstrip(remove_comment_chars_from_line(frame.raw[i]), Whitespace) = <<>>) =>
        frame'.lines = <<>>

\* the first logical line returned is not @blank
FirstLineNotBlank ==
    (SegmenterReturns /\ frame'.lines # <<>>) => frame'.lines[1] # <<"@">> \o str_blank

\* no line of the input has @blank as its own text
NoBlankWritten ==
    \A i \in 1..Len(frame.raw) :
        lstrip(remove_comment_chars_from_line(frame.raw[i]), Whitespace) # <<"@">> \o str_blank

\* C24 as stated: outside regions a blank line emits @blank exactly when a
\* logical line has already been emitted, counting the accumulation it
\* closes; for every input the first logical line returned is not @blank,
\* and blank lines only give the empty sequence.
C24_FirstLineNeverBlank ==
    [][BlankIffEmitted /\ OnlyBlankGivesNothing /\ FirstLineNotBlank]_vars

\* C24, amended: the same, the first logical line being other than @blank
\* for every input in which no line has @blank as its own text.
C24_BlankOnlyAfterOutput ==
    [][/\ BlankIffEmitted
       /\ OnlyBlankGivesNothing
       /\ (SegmenterReturns /\ NoBlankWritten) => FirstLineNotBlank]_vars

\* a blank line after a paragraph has closed it and emitted @blank, and a
\* blank line before any content has emitted nothing
C24_Witness ==
    /\ frame.pc = "segment"
    /\ frame.k = 3
    /\ frame.raw = <<<<"/", "/", "/">>, doc_line(<<"t">>), <<"/", "/", "/">>>>
    /\ frame.pp.result = <<<<"t">>, <<"@">> \o str_blank>>

\* the step reads a line while a paragraph or a list item is accumulated
ReadsInAccumulation == ReadsRawLine /\ frame.pp.block_type \in {"other", "list"}

\* the line read is blank or begins a command or a list item
ClosesAccumulation ==
    fully_stripped_read = <<>> \/ startswith_any(fully_stripped_read, BlockEnders)

\* C25: outside regions a line that is not blank and does not begin with
\* \, @, -, + or * is appended to the open paragraph or list item after one
\* space and nothing is emitted; a line that is blank or begins with one of
\* them has the open accumulation emitted as the next logical line, ahead
\* of whatever the line itself gives; an accumulation open when the input
\* ends is emitted as the last logical line.
C25_AccumulationMergesAndCloses ==
    [][/\ (ReadsInAccumulation /\ ~ClosesAccumulation) =>
              frame'.pp = [frame.pp EXCEPT !.cur_line = @ \o <<" ">> \o fully_stripped_read]
       /\ (ReadsInAccumulation /\ ClosesAccumulation) =>
              /\ Len(frame'.pp.result) > Len(frame.pp.result)
              /\ SubSeq(frame'.pp.result, 1, Len(frame.pp.result) + 1)
                     = Append(frame.pp.result, frame.pp.cur_line)
              /\ frame'.pp.cur_line \in {<<>>, fully_stripped_read,
                                         <<"@">> \o str_li \o <<" ">> \o stripped_read}
       /\ (SegmenterReturns /\ frame.pp.block_type \in {"other", "list"}) =>
              frame'.lines = Append(frame.pp.result, frame.pp.cur_line)]_vars

\* a paragraph of two lines, the second indented, closed by a list item
C25_Witness ==
    /\ frame.pc = "segment"
    /\ frame.k = 3
    /\ frame.raw = <<doc_line(<<"t">>), doc_line(<<" ", " ", "u">>), doc_line(<<"-", " ", "i">>)>>
    /\ frame.pp.result = <<<<"t", " ", "u">>>>
    /\ frame.pp.block_type = "list"

\* the line, without its decoration and the whitespace before its text,
\* begins with a list marker
is_marker_line(line) ==
    startswith_any(lstrip(remove_comment_chars_from_line(line), Whitespace),
                   {<<"-">>, <<"+">>, <<"*">>})

OpensRegion(keyword) ==
    /\ ReadsRawLine
    /\ frame.pp.block_type \notin {"verbatim", "code"}
    /\ startswith_any(fully_stripped_read, with_escape(keyword))

\* the column of the keyword in the line that opens the region
opening_column(keyword) ==
    max(find(raw_line_read, <<"@">> \o keyword), find(raw_line_read, <<"\\">> \o keyword))

\* C27: a code region starts as its opening line; every line read before
\* the one that holds \endcode or @endcode is added, after a newline,
\* without the characters before the column of the opening keyword; the
\* line that holds the tag adds nothing, whatever stands before or after
\* the tag, and has the region emitted as it is.
C27_CodeTerminatorAddsNothing ==
    [][/\ OpensRegion(str_code) =>
              /\ frame'.pp.block_type = "code"
              /\ frame'.pp.cur_line = fully_stripped_read
              /\ frame'.pp.chars = opening_column(str_code)
       /\ (/\ ReadsRawLine
           /\ frame.pp.block_type = "code"
           /\ ~has_end_tag(raw_line_read, str_code)) =>
              frame'.pp = [frame.pp EXCEPT !.cur_line =
                              @ \o <<"\n">> \o slice_from(raw_line_read, frame.pp.chars)]
       /\ (/\ ReadsRawLine
           /\ frame.pp.block_type = "code"
           /\ has_end_tag(raw_line_read, str_code)) =>
              frame'.pp = [frame.pp EXCEPT !.block_type = "None",
                                           !.result = Append(@, frame.pp.cur_line),
                                           !.cur_line = <<>>]]_vars

\* a code region of one line closed by a line with text around the tag
C27_Witness ==
    /\ frame.pc = "segment"
    /\ frame.k = 3
    /\ frame.raw = <<doc_line(<<"@">> \o str_code), doc_line(<<"t">>),
                     doc_line(<<"b", "@">> \o str_end \o str_code \o <<" ", "c">>)>>
    /\ frame.pp.result = << <<"@">> \o str_code \o <<"\n", "t">> >>
    /\ frame.pp.cur_line = <<>>

\* the Grouper, given the logical line of a region as the line it reads,
\* classifies it under the keyword and adds it to the command it is on as
\* one element of the region's type, without starting a command
GroupedAsRegion(line, keyword, block_type) ==
    /\ get_keyword_and_rest_of_line(line).keyword = keyword
    /\ Len(group_line(GrouperStart, line).objs) = 1
    /\ group_line(GrouperStart, line).cur_command = 1
    /\ group_line(GrouperStart, line).objs[1].elements
           = <<DocElement(get_keyword_and_rest_of_line(line).rest_of_line, block_type)>>

\* every logical line emitted for a region of the type, at the line that
\* closes it or at the end of the input, is grouped as a region
RegionLinesGrouped(keyword, block_type) ==
    /\ (/\ ReadsRawLine
        /\ frame.pp.block_type = block_type
        /\ Len(frame'.pp.result) = Len(frame.pp.result) + 1) =>
           GroupedAsRegion(frame'.pp.result[Len(frame'.pp.result)], keyword, block_type)
    /\ (/\ SegmenterReturns
        /\ frame.pp.block_type = block_type
        /\ frame.pp.cur_line # <<>>) =>
           GroupedAsRegion(frame'.lines[Len(frame'.lines)], keyword, block_type)

\* C29: every logical line the Segmenter emits for a code region is read by
\* the Grouper under the keyword code, and every one for a verbatim region
\* under the keyword verbatim: it becomes one Code or Verbatim element of
\* the current command and starts no command, whatever line opened the
\* region.
C29_RegionsGroupedAsOpened ==
    [][/\ RegionLinesGrouped(str_code, "code")
       /\ RegionLinesGrouped(str_verbatim, "verbatim")]_vars

\* C28: when no word of the text is a reference marker and no word resolves,
\* _update_text_block returns the text as it was given, the white space
\* between its words included, and calls the link renderer for nothing.
C28_UnresolvedTextUnchanged ==
    (/\ Resolved
     /\ \A i \in 1..Len(input.words) : ~IsMarker(i) /\ entity_of(i) = Null) =>
        /\ output.out = input.text
        /\ output.calls = <<>>

(***************************************************************************)
(* ClassDoc.inheritance_tree as the cached property it is: the first read  *)
(* that returns stores the list in the instance under the name             *)
(* inheritance_tree, and a read of an instance that holds the name returns *)
(* what is stored.  i.h declares the classes R, A and B in namespace n;    *)
(* between two reads parse() may register the class of a further file in   *)
(* the namespace's class map.                                              *)
(***************************************************************************)
MaxRegistered == 1

\* functools.cached_property: the value is in the instance's __dict__
is_cached(h, self) == "inheritance_tree" \in DOMAIN h[self]

RECURSIVE cached_inheritance_tree_from(_, _, _)
RECURSIVE merge_cached_base_classes(_, _, _, _, _)
\* for base_class in self.base_classes, every read of a base's
\* inheritance_tree going through the cache; h is the heap so far
merge_cached_base_classes(h, self, base_classes, result, active) ==
    IF base_classes = <<>> THEN [raised |-> FALSE, tree |-> result, h |-> h]
    ELSE IF Head(base_classes) \notin DOMAIN h[h[self].namespace].classes
         THEN merge_cached_base_classes(h, self, Tail(base_classes), result, active)
    ELSE LET merge(base_inheritance_tree) ==
                 IF base_inheritance_tree.raised THEN base_inheritance_tree
                 ELSE merge_cached_base_classes(base_inheritance_tree.h, self, Tail(base_classes),
                          append_new(result, base_inheritance_tree.tree), active)
         IN  merge(cached_inheritance_tree_from(h, h[h[self].namespace].classes[Head(base_classes)],
                                                active))

\* a read of self.inheritance_tree that computes the list again and stores
\* it, whatever the instance holds
recomputed_inheritance_tree_from(h, self, active) ==
    LET store(r) ==
            IF r.raised THEN r
            ELSE [r EXCEPT !.h = [r.h EXCEPT ![self] = ("inheritance_tree" :> r.tree) @@ r.h[self]]]
    IN  IF self \in active THEN [raised |-> TRUE, tree |-> <<>>, h |-> h]
        ELSE store(merge_cached_base_classes(h, self, h[self].base_classes, <<self>>,
                                             active \cup {self}))

\* a read of self.inheritance_tree, entered with the getters of `active` on
\* the call stack: the stored list when there is one, else the getter's
\* result, stored when the getter returns
cached_inheritance_tree_from(h, self, active) ==
    LET store(r) ==
            IF r.raised THEN r
            ELSE [r EXCEPT !.h = [r.h EXCEPT ![self] = ("inheritance_tree" :> r.tree) @@ r.h[self]]]
    IN  IF is_cached(h, self)
        THEN [raised |-> FALSE, tree |-> h[self].inheritance_tree, h |-> h]
        ELSE IF self \in active THEN [raised |-> TRUE, tree |-> <<>>, h |-> h]
        ELSE store(merge_cached_base_classes(h, self, h[self].base_classes, <<self>>,
                                             active \cup {self}))

\* j.h, a file parsed later: namespace n with one class, new to the
\* namespace or of the name of a class it holds
RegisteredFiles ==
    { [path |-> <<"j", ".", "h">>, parsable |-> TRUE,
       namespaces |-> <<
         [name |-> <<"n">>, doxygen |-> NoDoxygen,
          classes |-> << [name |-> name, anonymous |-> FALSE, doxygen |-> NoDoxygen,
                          methods |-> <<>>, fields |-> <<>>, enums |-> <<>>,
                          bases |-> bases] >>,
          enums |-> <<>>]>>] :
      name \in {External, ClassNames[2]}, bases \in {<<>>, <<ClassNames[3]>>} }

\* the state after parse() of i.h
InitCached ==
    \E b1 \in BaseLists(1), b2 \in BaseLists(2), b3 \in BaseLists(3) :
        \E st \in {parse_one_file(EmptyStore, InheritanceFile(<<b1, b2, b3>>))} :
            /\ heap = st.heap
            /\ next = st.next
            /\ namespaces = st.namespaces
            /\ classes = st.classes
            /\ enums = st.enums
            /\ files = st.files
            /\ pc = "parsed"
            /\ done = <<>>
            /\ results = <<>>
            /\ input = NoCall
            /\ output = NoCall
            /\ frame = NoFrame

\* a read of self.inheritance_tree on a ClassDoc
ReadInheritanceTree ==
    /\ pc = "parsed"
    /\ \E self \in {r \in DOMAIN heap : heap[r].kind = "class"} :
       \E r \in {cached_inheritance_tree_from(heap, self, {})} :
          /\ input' = [op |-> "inheritance_tree", self |-> self]
          /\ output' = [raised |-> r.raised, tree |-> r.tree]
          /\ heap' = r.h
    /\ UNCHANGED <<next, namespaces, classes, enums, files, pc, done, results, frame>>

\* parse() of a further file: its class is put in the class map of the
\* namespace, in the place of the class of its name if there is one
RegisterClass ==
    /\ pc = "parsed"
    /\ Len(done) < MaxRegistered
    /\ \E file \in RegisteredFiles :
       \E st \in {parse_one_file([EmptyStore EXCEPT !.heap = heap, !.next = next,
                                     !.namespaces = namespaces, !.classes = classes,
                                     !.enums = enums, !.files = files], file)} :
           /\ heap' = st.heap
           /\ next' = st.next
           /\ namespaces' = st.namespaces
           /\ classes' = st.classes
           /\ enums' = st.enums
           /\ files' = st.files
           /\ input' = [op |-> "parse", path |-> file.path]
    /\ output' = NoCall
    /\ done' = Append(done, Len(done) + 1)
    /\ UNCHANGED <<pc, results, frame>>

NextCached == ReadInheritanceTree \/ RegisterClass

SpecCached == InitCached /\ [][NextCached]_vars

\* the ClassDocs that hold a list under inheritance_tree
cached_classes == {r \in DOMAIN heap : heap[r].kind = "class" /\ is_cached(heap, r)}

\* the step is a read of inheritance_tree
ReadsInheritanceTree == input'.op = "inheritance_tree" /\ <<heap, input, output>>' # <<heap, input, output>>

\* C30: once a read of a ClassDoc's inheritance_tree has returned, the list
\* it returned stays with the ClassDoc through every later step, a parse
\* that adds a class to the namespace's class map or replaces one included,
\* and a later read of it returns that list and computes nothing: no list
\* is stored or changed by it.
C30_TreeComputedOnce ==
    [][/\ \A c \in cached_classes :
              /\ is_cached(heap', c)
              /\ heap'[c].inheritance_tree = heap[c].inheritance_tree
       /\ (ReadsInheritanceTree /\ input'.self \in cached_classes) =>
              /\ ~output'.raised
              /\ output'.tree = heap[input'.self].inheritance_tree
              /\ heap' = heap]_vars

\* B, whose base X the namespace did not hold, was read; j.h then gave the
\* namespace a class X; the read of B after it returned the list without X
C30_Witness ==
    /\ done = <<1>>
    /\ input.op = "inheritance_tree"
    /\ heap[input.self].name = ClassNames[3]
    /\ \E i \in 1..Len(heap[input.self].base_classes) :
           heap[input.self].base_classes[i] = External
    /\ External \in DOMAIN heap[heap[input.self].namespace].classes
    /\ ~output.raised
    /\ \A i \in 1..Len(output.tree) : heap[output.tree[i]].name # External
    /\ heap[input.self].inheritance_tree = output.tree

====
